---- MODULE Spec2Model ----
(***************************************************************************)
(* Model of the service layer of the repository:                           *)
(*   services/weekly-business-service.js  (WeeklyBusinessService)          *)
(*   services/contact-service.js          (ContactService)                 *)
(*                                                                         *)
(* JavaScript values are encoded as strings:                               *)
(*   "undefined", "null"   the two empty JS values                         *)
(*   ""                    the empty string                                *)
(*   "a", "r1", ...        non-empty strings                               *)
(*   "#0", "#1", "#2"      the numbers 0, 1, 2                             *)
(* A JavaScript object is a function from the set of its own keys to such  *)
(* values; a key that is present with the value undefined is in the        *)
(* domain, a key that is absent is not.                                    *)
(*                                                                         *)
(* The localized sheet keys are written in ASCII:                          *)
(*   riqi = the localized date key       zhuti = localized topic key       *)
(*   canyu = localized participants key  zhaiyao = localized summary key   *)
(*   daiban = localized todo key         jianlizhe = localized creator key *)
(* and so are the localized names of the system configuration:             *)
(*   rili_shaixuan_guize = the calendar filter rule list                   *)
(*   DX_pingbi_guanjianzi = the block rule of calendar stream A            *)
(*   AT_zhuanyi_guanjianzi = the transfer rule of calendar stream B        *)
(*   quantian = the all-day marker                                         *)
(***************************************************************************)
EXTENDS Integers, Sequences, FiniteSets, TLC

VARIABLES
    pc,      \* "called": a request is pending; "done": its handler returned
    req,     \* the request: operation, arguments, injected collaborators
    calls,   \* collaborator calls issued by the handler, in order, with replies
    locals,  \* the handler's local variables when it returned
    ret      \* what the handler returned or threw

vars == <<pc, req, calls, locals, ret>>

(***************************************************************************)
(* Bounds of the model                                                     *)
(***************************************************************************)
MaxKeys == 2      \* a raw record given to _normalizeEntry has at most so many keys
MaxRows == 2      \* a reader returns at most so many rows
MaxEvents == 1    \* a calendar returns at most so many events for a week
MaxEntries == 3   \* a reader returns at most so many entries to getEntriesForWeek
MaxContacts == 3  \* a reader returns at most so many contacts to searchOfficialContacts
MaxPage == 3      \* searchOfficialContacts is asked for a page up to this one
MaxPageSize == 2  \* CONTACTS_PER_PAGE is configured up to this size

(***************************************************************************)
(* JavaScript values and objects                                           *)
(***************************************************************************)
UNDEF == "undefined"
NULL == "null"

Falsy(v) == v \in {UNDEF, NULL, "", "#0"}
Truthy(v) == ~Falsy(v)

\* a || b
Or(a, b) == IF Truthy(a) THEN a ELSE b

EmptyObj == [k \in {} |-> UNDEF]

\* obj.k / obj['k']: undefined when the key is absent
Get(obj, k) == IF k \in DOMAIN obj THEN obj[k] ELSE UNDEF

\* { ...a, ...b }: keys of b win
Merge(a, b) == [k \in (DOMAIN a) \cup (DOMAIN b) |-> IF k \in DOMAIN b THEN b[k] ELSE a[k]]

\* array.map(f) is written [i \in 1..Len(s) |-> f(s[i])] where it is used

\* the lists of at most n elements of S
RECURSIVE SeqsUpTo(_, _)
SeqsUpTo(S, n) ==
    IF n = 0 THEN {<<>>}
    ELSE LET shorter == SeqsUpTo(S, n - 1)
         IN shorter \cup {Append(s, x) : s \in {t \in shorter : Len(t) = n - 1}, x \in S}

\* array.find(p): the first index whose element satisfies the test, 0 if none
RECURSIVE FirstIndex(_, _, _)
FirstIndex(s, id, i) ==
    IF i > Len(s) THEN 0
    ELSE IF Get(s[i], "recordId") = id THEN i
    ELSE FirstIndex(s, id, i + 1)

\* the reply of a collaborator call and the result of a handler
Reply(kind, rows) == [kind |-> kind, rows |-> rows]
Threw(err) == [kind |-> "throw", err |-> err, rows |-> <<>>, obj |-> EmptyObj]
Returned(kind, rows, obj) == [kind |-> kind, err |-> "", rows |-> rows, obj |-> obj]
Call(fn, arg, reply) == [fn |-> fn, arg |-> arg, reply |-> reply]
NoReply == Reply("none", <<>>)

(***************************************************************************)
(* WeeklyBusinessService._normalizeEntry                                   *)
(***************************************************************************)
\* every key the normalizer reads or writes, and one more native key ("extra")
NormKeys ==
    {"riqi", "entryDate", "weekId", "recordId", "rowIndex", "date",
     "category", "topic", "zhuti", "participants", "canyu",
     "summaryContent", "zhaiyao", "todoItems", "daiban",
     "createdTime", "updatedTime", "lastUpdateTime", "createdBy", "jianlizhe",
     "extra"}

JSVals == {UNDEF, NULL, "", "a", "#0", "#2"}

\* AliasOf with the last-update alias read from the wrong DTO key
AliasOfUnmappedUpdatedTime ==
    [riqi |-> "entryDate", weekId |-> "weekId", category |-> "category",
     zhuti |-> "topic", canyu |-> "participants", zhaiyao |-> "summaryContent",
     daiban |-> "todoItems", createdTime |-> "createdTime",
     lastUpdateTime |-> "lastUpdateTime", jianlizhe |-> "createdBy",
     recordId |-> "recordId"]

\* the legacy alias table: synthesized key -> the DTO key it is taken from
AliasOf ==
    [riqi |-> "entryDate", weekId |-> "weekId", category |-> "category",
     zhuti |-> "topic", canyu |-> "participants", zhaiyao |-> "summaryContent",
     daiban |-> "todoItems", createdTime |-> "createdTime",
     lastUpdateTime |-> "updatedTime", jianlizhe |-> "createdBy",
     recordId |-> "recordId"]

IsSheet(raw) == Get(raw, "riqi") # UNDEF

\* ViewContract that leaves the contract of a sheet row empty
ViewContractEmptyForSheet(raw) ==
    IF IsSheet(raw) THEN EmptyObj
    ELSE Merge(raw, [k \in DOMAIN AliasOf |-> Or(Get(raw, AliasOf[k]), "")])

\* the view contract: the raw row for a sheet row, the DTO plus the aliases otherwise
ViewContract(raw) ==
    IF IsSheet(raw) THEN raw
    ELSE Merge(raw, [k \in DOMAIN AliasOf |-> Or(Get(raw, AliasOf[k]), "")])

\* LogicFields that copies rowIndex whatever the shape of the record
LogicFieldsKeepRowIndex(raw) ==
    [date |-> IF IsSheet(raw) THEN Get(raw, "riqi") ELSE Get(raw, "entryDate"),
     weekId |-> Get(raw, "weekId"),
     recordId |-> Get(raw, "recordId"),
     rowIndex |-> Get(raw, "rowIndex")]

\* the four service-logic fields written last, over the view contract
LogicFields(raw) ==
    [date |-> IF IsSheet(raw) THEN Get(raw, "riqi") ELSE Get(raw, "entryDate"),
     weekId |-> Get(raw, "weekId"),
     recordId |-> Get(raw, "recordId"),
     rowIndex |-> IF IsSheet(raw) THEN Get(raw, "rowIndex") ELSE UNDEF]

NormalizeEntry(raw) == Merge(ViewContract(raw), LogicFields(raw))

RawRecords ==
    UNION {[D -> JSVals] : D \in {K \in SUBSET NormKeys : Cardinality(K) <= MaxKeys}}

(***************************************************************************)
(* WeeklyBusinessService._fetchInternal                                    *)
(***************************************************************************)
SqlGetEntries == "weeklyBusinessSqlReader.getWeeklyBusinessEntries"
SheetGetAllEntries == "weeklyBusinessReader.getAllEntries"
SheetGetWeeklySummary == "weeklyBusinessReader.getWeeklySummary"
UpdateEntryRow == "weeklyBusinessWriter.updateEntryRow"
DeleteEntryRow == "weeklyBusinessWriter.deleteEntryRow"

Modes == {"ENTRIES", "SUMMARY", "OTHER"}

\* what the SQL reader hands out: DTOs with canonical keys, some without a
\* recordId, some carrying a rowIndex column of their own
WeeklyDtos ==
    {Merge([entryDate |-> "a", weekId |-> "w1"], Merge(i, x)) :
        i \in {EmptyObj, [recordId |-> "r1"], [recordId |-> "r2"]},
        x \in {EmptyObj, [rowIndex |-> "#2"]}}

\* what the sheet reader hands out: rows with the localized date key
SheetRows ==
    {Merge([riqi |-> "a", weekId |-> "w1", recordId |-> i], x) :
        i \in {"r1", "r2"},
        x \in {EmptyObj, [rowIndex |-> "#0"], [rowIndex |-> "#1"], [rowIndex |-> "#2"]}}

SummaryRows == {[weekId |-> "w1", summaryContent |-> c] : c \in {"", "a"}}

SqlReplies ==
    {Reply("throw", <<>>), Reply("null", <<>>)}
        \cup {Reply("rows", r) : r \in SeqsUpTo(WeeklyDtos, MaxRows)}

SheetEntryReplies ==
    {Reply("throw", <<>>)} \cup {Reply("rows", r) : r \in SeqsUpTo(SheetRows, MaxRows)}

SheetSummaryReplies ==
    {Reply("throw", <<>>)} \cup {Reply("rows", r) : r \in SeqsUpTo(SummaryRows, MaxRows)}

NormalizeAll(rows) == [i \in 1..Len(rows) |-> NormalizeEntry(rows[i])]

\* the sheet fallback path (lines 71-81), entered with the calls made so far
SheetFallback(mode, log, sheetReply) ==
    CASE mode = "SUMMARY" ->
            LET log2 == Append(log, Call(SheetGetWeeklySummary, <<>>, sheetReply))
            IN  IF sheetReply.kind = "throw"
                THEN [log |-> log2, result |-> Threw("SheetError")]
                ELSE [log |-> log2, result |-> Returned("rows", sheetReply.rows, EmptyObj)]
      [] mode = "ENTRIES" ->
            LET log2 == Append(log, Call(SheetGetAllEntries, <<>>, sheetReply))
            IN  IF sheetReply.kind = "throw"
                THEN [log |-> log2, result |-> Threw("SheetError")]
                ELSE [log |-> log2,
                      result |-> Returned("rows", NormalizeAll(sheetReply.rows), EmptyObj)]
      [] OTHER -> [log |-> log, result |-> Returned("rows", <<>>, EmptyObj)]

\* whether the try block (lines 51-65) returns from the SQL path; otherwise
\* (no SQL reader, an exception caught) the sheet path follows
SqlPathReturns(mode, sqlReply) ==
    \/ mode = "SUMMARY" /\ sqlReply.kind \in {"null", "rows"}
    \/ mode = "ENTRIES" /\ sqlReply.kind = "rows"

\* a catch block that throws the error again
CaughtSqlFailureRethrows(mode, log, sheetReply) ==
    [log |-> log, result |-> Threw("SqlError")]

\* the catch block (lines 66-69): a warning, then the sheet path
CaughtSqlFailure(mode, log, sheetReply) == SheetFallback(mode, log, sheetReply)

\* one execution of _fetchInternal(mode), given what each reader replies when
\* (and if) it is called
FetchInternal(mode, hasSql, sqlReply, sheetReply) ==
    IF hasSql /\ mode \in {"SUMMARY", "ENTRIES"}
    THEN LET log1 == <<Call(SqlGetEntries, <<>>, sqlReply)>>
         IN  IF SqlPathReturns(mode, sqlReply)
             THEN [log |-> log1,
                   result |->
                     IF mode = "SUMMARY"
                     THEN Returned(sqlReply.kind, sqlReply.rows, EmptyObj)
                     ELSE Returned("rows", NormalizeAll(sqlReply.rows), EmptyObj)]
             ELSE CaughtSqlFailure(mode, log1, sheetReply)
    ELSE SheetFallback(mode, <<>>, sheetReply)

(***************************************************************************)
(* WeeklyBusinessService.updateWeeklyBusinessEntry / deleteWeeklyBusinessEntry *)
(***************************************************************************)
\* a not-found test that looks at the list, not at the target
NotFoundOnlyWhenEmpty(entries, recordId) == Len(entries) = 0

\* if (!target)
NotFound(entries, recordId) == FirstIndex(entries, recordId, 1) = 0

\* a guard that tests for undefined only
WriteProtectedOnlyUndefined(target) == Get(target, "rowIndex") = UNDEF

\* if (!target.rowIndex)
WriteProtected(target) == Falsy(Get(target, "rowIndex"))

NoLocals == [entries |-> <<>>, found |-> FALSE, target |-> EmptyObj]

\* lines 388-410 and 415-436: op is "update" or "delete"
WriteEntry(op, recordId, data, hasSql, sqlReply, sheetReply, writerReply) ==
    LET f == FetchInternal("ENTRIES", hasSql, sqlReply, sheetReply)
        allEntries == f.result.rows
        idx == FirstIndex(allEntries, recordId, 1)
        seen == [entries |-> allEntries, found |-> idx # 0,
                 target |-> IF idx # 0 THEN allEntries[idx] ELSE EmptyObj]
        rowIndex == Get(seen.target, "rowIndex")
        writerCall ==
            IF op = "update"
            THEN Call(UpdateEntryRow,
                      [rowIndex |-> rowIndex, modifier |-> Or(Get(data, "creator"), "System")],
                      writerReply)
            ELSE Call(DeleteEntryRow, [rowIndex |-> rowIndex], writerReply)
    IN  IF f.result.kind = "throw"
        THEN [log |-> f.log, locals |-> NoLocals, result |-> f.result]
        ELSE IF NotFound(allEntries, recordId)
        THEN [log |-> f.log, locals |-> seen, result |-> Threw("NotFound")]
        ELSE IF idx = 0
        THEN [log |-> f.log, locals |-> seen, result |-> Threw("TypeError")]
        ELSE IF WriteProtected(seen.target)
        THEN [log |-> f.log, locals |-> seen, result |-> Threw("Forbidden")]
        ELSE [log |-> Append(f.log, writerCall), locals |-> seen,
              result |-> IF writerReply.kind = "throw"
                         THEN Threw("WriterError")
                         ELSE Returned("written", <<>>, EmptyObj)]

WriterReplies == {Reply("throw", <<>>), Reply("ok", <<>>)}

\* A collaborator's reply is drawn when the handler calls it, and only then.
SqlRepliesFor(mode, hasSql) ==
    IF hasSql /\ mode \in {"SUMMARY", "ENTRIES"} THEN SqlReplies ELSE {NoReply}

SheetRepliesFor(mode, hasSql, sqlReply) ==
    IF hasSql /\ mode \in {"SUMMARY", "ENTRIES"} /\ SqlPathReturns(mode, sqlReply)
    THEN {NoReply}
    ELSE CASE mode = "SUMMARY" -> SheetSummaryReplies
           [] mode = "ENTRIES" -> SheetEntryReplies
           [] OTHER -> {NoReply}

WriterRepliesFor(op, recordId, data, hasSql, sqlReply, sheetReply) ==
    LET run == WriteEntry(op, recordId, data, hasSql, sqlReply, sheetReply, NoReply)
    IN  IF run.result.kind = "written" THEN WriterReplies ELSE {NoReply}

(***************************************************************************)
(* ContactService._fetchOfficialContactsWithCompanies                      *)
(***************************************************************************)
SqlGetContacts == "contactSqlReader.getContacts"
ContactGetList == "contactReader.getContactList"
CompanyGetList == "companyReader.getCompanyList"
InvalidateCache == "contactReader.invalidateCache"
SqlWriterFn(op) == "contactSqlWriter." \o op

\* what the SQL contact reader hands out: jobTitle and/or position
SqlContacts ==
    {Merge([contactId |-> i, companyId |-> "k1"], Merge(j, q)) :
        i \in {"c1", "c2"},
        j \in {EmptyObj, [jobTitle |-> "j"]},
        q \in {EmptyObj, [position |-> "p"]}}

\* what the sheet contact reader hands out
LegacyContacts ==
    {Merge([contactId |-> i], Merge(c, q)) :
        i \in {"c1", "c2"},
        c \in {EmptyObj, [companyId |-> "k1"]},
        q \in {EmptyObj, [position |-> "p"]}}

Companies ==
    {[companyId |-> "k1", companyName |-> "n"],
     [companyId |-> "k1", companyName |-> ""],
     [companyId |-> "k2", companyName |-> "m"]}

SqlContactReplies ==
    {Reply("throw", <<>>), Reply("null", <<>>)}
        \cup {Reply("rows", r) : r \in SeqsUpTo(SqlContacts, MaxRows)}

LegacyContactReplies ==
    {Reply("throw", <<>>)} \cup {Reply("rows", r) : r \in SeqsUpTo(LegacyContacts, MaxRows)}

CompanyReplies ==
    {Reply("throw", <<>>)} \cup {Reply("rows", r) : r \in SeqsUpTo(Companies, MaxRows)}

\* _mapSqlContact
MapSqlContact(contact) ==
    Merge(contact, [position |-> Or(Get(contact, "jobTitle"), Get(contact, "position"))])

\* new Map(allCompanies.map(c => [c.companyId, c.companyName])).get(id):
\* the last company of the list with that id
CompanyNameMapGet(allCompanies, id) ==
    LET hits == {i \in 1..Len(allCompanies) : Get(allCompanies[i], "companyId") = id}
    IN  IF hits = {} THEN UNDEF
        ELSE Get(allCompanies[CHOOSE i \in hits : \A j \in hits : j <= i], "companyName")

\* _mapOfficialContact
MapOfficialContact(contact, allCompanies) ==
    Merge(contact,
          [companyName |-> Or(CompanyNameMapGet(allCompanies, Get(contact, "companyId")),
                              Get(contact, "companyId"))])

\* a validation that lets an empty array through
SqlContactsUsableUnlessNull(sqlReply) == sqlReply.kind = "rows"

\* line 77 negated: neither null nor an empty array
SqlContactsUsable(sqlReply) == sqlReply.kind = "rows" /\ Len(sqlReply.rows) > 0

\* step 1 (lines 71-93): whether the SQL reader is called at all
SqlContactsTried(forceSheet, hasSqlReader) == ~forceSheet /\ hasSqlReader

\* one execution of _fetchOfficialContactsWithCompanies(forceSheet), given
\* what each reader replies when (and if) it is called
FetchOfficialContacts(forceSheet, hasSqlReader, sqlReply, sheetReply, companyReply) ==
    LET tried == SqlContactsTried(forceSheet, hasSqlReader)
        log1 == IF tried THEN <<Call(SqlGetContacts, <<>>, sqlReply)>> ELSE <<>>
        fromSql == tried /\ SqlContactsUsable(sqlReply)
        log2 == IF fromSql THEN log1
                ELSE Append(log1, Call(ContactGetList, <<>>, sheetReply))
        allContacts ==
            IF fromSql
            THEN [i \in 1..Len(sqlReply.rows) |-> MapSqlContact(sqlReply.rows[i])]
            ELSE sheetReply.rows
        log3 == Append(log2, Call(CompanyGetList, <<>>, companyReply))
    IN  IF ~fromSql /\ sheetReply.kind = "throw"
        THEN [log |-> log2, result |-> Threw("SheetError")]
        ELSE IF companyReply.kind = "throw"
        THEN [log |-> log3, result |-> Threw("CompanyError")]
        ELSE [log |-> log3,
              result |-> Returned("rows",
                            [i \in 1..Len(allContacts) |->
                                MapOfficialContact(allContacts[i], companyReply.rows)],
                            EmptyObj)]

SqlContactRepliesFor(forceSheet, hasSqlReader) ==
    IF SqlContactsTried(forceSheet, hasSqlReader) THEN SqlContactReplies ELSE {NoReply}

LegacyContactRepliesFor(forceSheet, hasSqlReader, sqlReply) ==
    IF SqlContactsTried(forceSheet, hasSqlReader) /\ SqlContactsUsable(sqlReply)
    THEN {NoReply}
    ELSE LegacyContactReplies

CompanyRepliesFor(sheetReply) ==
    IF sheetReply.kind = "throw" THEN {NoReply} ELSE CompanyReplies

(***************************************************************************)
(* ContactService.createContact / updateContact / deleteContact            *)
(***************************************************************************)
ContactMutations == {"createContact", "updateContact", "deleteContact"}

\* the route of the deprecated _resolveContactRowIndex: read the sheet for a
\* row position, write through the legacy contactWriter
ContactMutationViaRowIndex(op, contactId, hasSqlWriter, hasContactReader, writerReply) ==
    [log |-> <<Call(ContactGetList, <<>>, NoReply),
               Call("contactWriter." \o op, [rowIndex |-> "#2"], writerReply)>>,
     result |-> IF writerReply.kind = "throw" THEN Threw("WriterError")
                ELSE Returned("written", <<>>, EmptyObj)]

\* lines 364-380, 386-403, 408-424: op is one of ContactMutations
ContactMutation(op, contactId, hasSqlWriter, hasContactReader, writerReply) ==
    LET writerCall ==
            Call(SqlWriterFn(op),
                 IF op = "createContact" THEN EmptyObj ELSE [contactId |-> contactId],
                 writerReply)
    IN  IF ~hasSqlWriter
        THEN [log |-> <<>>, result |-> Threw("NotConfigured")]
        ELSE IF writerReply.kind = "throw"
        THEN [log |-> <<writerCall>>, result |-> Threw("WriterError")]
        ELSE [log |-> IF hasContactReader
                      THEN <<writerCall, Call(InvalidateCache, [key |-> "contactList"], NoReply)>>
                      ELSE <<writerCall>>,
              result |-> Returned("written", <<>>, EmptyObj)]

ContactWriterRepliesFor(hasSqlWriter) == IF hasSqlWriter THEN WriterReplies ELSE {NoReply}

(***************************************************************************)
(* ContactService.updatePotentialContact                                   *)
(***************************************************************************)
GetPotentialContacts == "contactReader.getContacts"
WritePotentialContactRow == "contactWriter.writePotentialContactRow"

\* parseInt(rowIndex): of a number, of a string of digits, of another string
ParseInt(v) ==
    CASE v = "#2" -> "#2"
      [] v = "2" -> "#2"
      [] v = "3" -> "#3"
      [] OTHER -> "NaN"

\* allContacts.find(c => c.rowIndex === parseInt(rowIndex)): the places of
\* the matching contacts; NaN is equal to nothing
PotentialMatches(allContacts, rowIndex) ==
    {i \in 1..Len(allContacts) :
        /\ ParseInt(rowIndex) # "NaN"
        /\ Get(allContacts[i], "rowIndex") = ParseInt(rowIndex)}

\* lines 443-453: the target overlaid with the update, the note appended
\* to the notes of the target
MergedPotentialContact(target, updateData, modifier, today) ==
    LET oldNotes == Or(Get(target, "notes"), "")
        newNoteEntry == "[" \o modifier \o " " \o today \o "] " \o Get(updateData, "notes")
    IN  IF Truthy(Get(updateData, "notes"))
        THEN Merge(Merge(target, updateData),
                   [notes |-> IF Truthy(oldNotes)
                              THEN oldNotes \o "\n" \o newNoteEntry
                              ELSE newNoteEntry])
        ELSE Merge(target, updateData)

\* an update that drops the cache before it writes
UpdatePotentialContactInvalidatingFirst(rowIndex, updateData, modifier, today, readerReply, writerReply) ==
    LET readerCall == Call(GetPotentialContacts, <<>>, readerReply)
        hits == PotentialMatches(readerReply.rows, rowIndex)
        target == readerReply.rows[CHOOSE i \in hits : \A j \in hits : i <= j]
        writerCall ==
            Call(WritePotentialContactRow,
                 [rowIndex |-> rowIndex,
                  data |-> MergedPotentialContact(target, updateData, modifier, today)],
                 writerReply)
        dropCall == Call(InvalidateCache, [key |-> "contacts"], NoReply)
    IN  IF readerReply.kind = "throw"
        THEN [log |-> <<readerCall>>, result |-> Threw("ReaderError")]
        ELSE IF hits = {}
        THEN [log |-> <<readerCall>>, result |-> Threw("NotFound")]
        ELSE IF writerReply.kind = "throw"
        THEN [log |-> <<readerCall, dropCall, writerCall>>, result |-> Threw("WriterError")]
        ELSE [log |-> <<readerCall, dropCall, writerCall>>,
              result |-> Returned("written", <<>>, EmptyObj)]

\* one execution of updatePotentialContact(rowIndex, updateData, modifier),
\* lines 431-465: today is what new Date().toLocaleDateString() gives
UpdatePotentialContact(rowIndex, updateData, modifier, today, readerReply, writerReply) ==
    LET readerCall == Call(GetPotentialContacts, <<>>, readerReply)
        hits == PotentialMatches(readerReply.rows, rowIndex)
        target == readerReply.rows[CHOOSE i \in hits : \A j \in hits : i <= j]
        writerCall ==
            Call(WritePotentialContactRow,
                 [rowIndex |-> rowIndex,
                  data |-> MergedPotentialContact(target, updateData, modifier, today)],
                 writerReply)
    IN  IF readerReply.kind = "throw"
        THEN [log |-> <<readerCall>>, result |-> Threw("ReaderError")]
        ELSE IF hits = {}
        THEN [log |-> <<readerCall>>, result |-> Threw("NotFound")]
        ELSE IF writerReply.kind = "throw"
        THEN [log |-> <<readerCall, writerCall>>, result |-> Threw("WriterError")]
        ELSE [log |-> <<readerCall, writerCall,
                        Call(InvalidateCache, [key |-> "contacts"], NoReply)>>,
              result |-> Returned("written", <<>>, EmptyObj)]

\* the raw potential contacts the reader hands out
PotentialContacts ==
    {Merge([rowIndex |-> i], n) : i \in {"#2", "#3"}, n \in {EmptyObj, [notes |-> "old"]}}

PotentialReaderReplies ==
    {Reply("throw", <<>>)} \cup {Reply("rows", r) : r \in SeqsUpTo(PotentialContacts, MaxRows)}

\* the writer is called when the row was found
PotentialWriterRepliesFor(rowIndex, readerReply) ==
    IF readerReply.kind = "rows" /\ PotentialMatches(readerReply.rows, rowIndex) # {}
    THEN WriterReplies
    ELSE {NoReply}

\* new Date().toLocaleDateString() depends on the locale of the process
LocaleDates == {"1/19/2026", "2026/1/19"}

(***************************************************************************)
(* Text: strings as lists of characters                                    *)
(***************************************************************************)
\* the characters of the strings that are searched, split or trimmed
Chars(s) ==
    CASE s = "" -> <<>>
      [] s = "a" -> <<"a">>
      [] s = "B" -> <<"B">>
      [] s = "b" -> <<"b">>
      [] s = "T" -> <<"T">>
      [] s = "x" -> <<"x">>
      [] s = "TB" -> <<"T", "B">>
      [] s = "T,B" -> <<"T", ",", "B">>
      [] s = " B , " -> <<" ", "B", " ", ",", " ">>
      [] s = " " -> <<" ">>
      [] s = " a " -> <<" ", "a", " ">>
      [] s = "k1" -> <<"k", "1">>

\* haystack.includes(needle)
Includes(haystack, needle) ==
    \E i \in 0..(Len(haystack) - Len(needle)) :
        SubSeq(haystack, i + 1, i + Len(needle)) = needle

\* text.split(sep) for a one-character separator
RECURSIVE Split(_, _)
Split(text, sep) ==
    LET at == {i \in 1..Len(text) : text[i] = sep}
    IN  IF at = {} THEN <<text>>
        ELSE LET i == CHOOSE j \in at : \A k \in at : j <= k
             IN  <<SubSeq(text, 1, i - 1)>> \o Split(SubSeq(text, i + 1, Len(text)), sep)

\* text.trim()
RECURSIVE Trim(_)
Trim(text) ==
    IF text = <<>> THEN text
    ELSE IF Head(text) = " " THEN Trim(Tail(text))
    ELSE IF text[Len(text)] = " " THEN Trim(SubSeq(text, 1, Len(text) - 1))
    ELSE text

(***************************************************************************)
(* Dates: an instant is a number of minutes after 2026-01-19T00:00Z        *)
(***************************************************************************)
\* new Date(startVal) for the start values of the calendar events
ParseStart(s) ==
    CASE s = "2026-01-19" -> 0
      [] s = "2026-01-21" -> 2 * 1440
      [] s = "2026-01-20T09:30:00+08:00" -> 1440 + 90
      [] s = "2026-01-20T02:00:00+08:00" -> 1440 - 360
      [] s = "2026-01-22T10:00:00+08:00" -> 3 * 1440 + 120

\* the offset from UTC of a time zone, in minutes, in January
ZoneOffset(zone) ==
    CASE zone = "Asia/Taipei" -> 480
      [] zone = "America/New_York" -> 0 - 300

\* two digits
Pad2(n) == IF n < 10 THEN "0" \o ToString(n) ELSE ToString(n)

\* the date YYYY-MM-DD of the day that is n days after 2026-01-19, from
\* December 2025 to February 2026
DateString(n) ==
    IF 19 + n < 1 THEN "2025-12-" \o Pad2(19 + n + 31)
    ELSE IF 19 + n > 31 THEN "2026-02-" \o Pad2(19 + n - 31)
    ELSE "2026-01-" \o Pad2(19 + n)

\* eventDate.toLocaleDateString('en-CA', { timeZone })
LocaleDateString(instant, zone) == DateString((instant + ZoneOffset(zone)) \div 1440)

\* eventDate.toLocaleTimeString('zh-TW', { timeZone, hour: '2-digit',
\* minute: '2-digit', hour12: false })
LocaleTimeString(instant, zone) ==
    LET minuteOfDay == (instant + ZoneOffset(zone)) % 1440
    IN  Pad2(minuteOfDay \div 60) \o ":" \o Pad2(minuteOfDay % 60)

(***************************************************************************)
(* WeeklyBusinessService.getEntriesForWeek                                 *)
(***************************************************************************)
\* whether new Date(v) is a valid date, for the values an entry's date takes
ParsesAsDate(v) == v \in {"2026-01-19", "2026-01-21"}

\* new Date(b.date) - new Date(a.date) > 0; the difference is NaN, which the
\* sort takes for 0, when either date is invalid
SortsBefore(b, a) ==
    /\ ParsesAsDate(Get(a, "date"))
    /\ ParsesAsDate(Get(b, "date"))
    /\ ParseStart(Get(b, "date")) > ParseStart(Get(a, "date"))

\* entries.sort(comparator): a stable insertion of x into a sorted list
RECURSIVE InsertByDate(_, _)
InsertByDate(sorted, x) ==
    IF sorted = <<>> THEN <<x>>
    ELSE LET last == sorted[Len(sorted)]
         IN  IF SortsBefore(x, last)
             THEN Append(InsertByDate(SubSeq(sorted, 1, Len(sorted) - 1), x), last)
             ELSE Append(sorted, x)

RECURSIVE SortByDateDesc(_)
SortByDateDesc(entries) ==
    IF entries = <<>> THEN <<>>
    ELSE InsertByDate(SortByDateDesc(SubSeq(entries, 1, Len(entries) - 1)),
                      entries[Len(entries)])

\* /^\d{4}-\d{2}-\d{2}$/.test(dateString) and dateString.split('-').map(Number)
MatchesYmd(v) == v \in {"2026-01-19", "2026-01-21", "2026-13-01"}
YmdOf(v) ==
    CASE v = "2026-01-19" -> <<2026, 1, 19>>
      [] v = "2026-01-21" -> <<2026, 1, 21>>
      [] v = "2026-13-01" -> <<2026, 13, 1>>

\* Date.UTC(year, month - 1, day) in days since 1970-01-01: months and days
\* outside their range roll over
DaysSinceEpoch(year, month, day) ==
    LET y0 == year + ((month - 1) \div 12)
        m == ((month - 1) % 12) + 1
        y == IF m <= 2 THEN y0 - 1 ELSE y0
        era == y \div 400
        yoe == y - era * 400
        mp == (m + 9) % 12
        doy == (153 * mp + 2) \div 5
        doe == yoe * 365 + (yoe \div 4) - (yoe \div 100) + doy
    IN  era * 146097 + doe - 719468 + (day - 1)

\* entryDateUTC.getUTCDay(): 1970-01-01 was a Thursday
UTCDay(year, month, day) == (DaysSinceEpoch(year, month, day) + 4) % 7

\* lines 151-165: the day of the week, -1 when the date does not qualify
DayValue(entry) ==
    LET dateString == Get(entry, "date")
    IN  IF Truthy(dateString) /\ MatchesYmd(dateString)
        THEN LET ymd == YmdOf(dateString) IN UTCDay(ymd[1], ymd[2], ymd[3])
        ELSE 0 - 1

\* new Date(b.date) - new Date(a.date) as the sort sees it: 0 when the dates
\* are the same instant and when either is invalid (NaN)
ComparesEqual(a, b) ==
    \/ ~ParsesAsDate(Get(a, "date"))
    \/ ~ParsesAsDate(Get(b, "date"))
    \/ ParseStart(Get(a, "date")) = ParseStart(Get(b, "date"))

\* whether the comparator is a consistent one for these entries: comparing
\* equal is transitive among them
ComparatorConsistent(entries) ==
    \A i, j, k \in 1..Len(entries) :
        (ComparesEqual(entries[i], entries[j]) /\ ComparesEqual(entries[j], entries[k]))
            => ComparesEqual(entries[i], entries[k])

\* the rearrangements of a list
Rearrangements(entries) ==
    LET n == Len(entries)
    IN  {[i \in 1..n |-> entries[p[i]]] :
            p \in {q \in [1..n -> 1..n] : \A i, j \in 1..n : q[i] = q[j] => i = j}}

\* line 148, entries.sort(comparator): the stable descending order when the
\* comparator is consistent; with an inconsistent comparator the order is
\* left to the implementation
SortOutcomes(entries) ==
    IF ComparatorConsistent(entries) THEN {SortByDateDesc(entries)}
    ELSE Rearrangements(entries)

\* lines 142-145: the normalized entries of the week, none when the read fails
MatchingEntries(weekId, hasSql, sqlReply, sheetReply) ==
    LET f == FetchInternal("ENTRIES", hasSql, sqlReply, sheetReply)
    IN  IF f.result.kind = "throw" THEN <<>>
        ELSE SelectSeq(f.result.rows, LAMBDA e : Get(e, "weekId") = weekId)

\* one execution of getEntriesForWeek(weekId), sorted being the order the
\* sort left the matching entries in
GetEntriesForWeek(weekId, hasSql, sqlReply, sheetReply, sorted) ==
    LET f == FetchInternal("ENTRIES", hasSql, sqlReply, sheetReply)
        withDay(e) == Merge(e, [day |-> DayValue(e), _view |-> [day |-> DayValue(e)]])
    IN  [log |-> f.log,
         entries |-> IF f.result.kind = "throw" THEN <<>>
                     ELSE [i \in 1..Len(sorted) |-> withDay(sorted[i])]]

\* the records a reader holds for getEntriesForWeek: of the week asked for
\* or of another, the date valid, malformed, of a month 13, empty or, for a
\* SQL DTO, missing
EntryDates == {"2026-01-19", "2026-01-21", "2026-13-01", "a"}
EntryDtos ==
    {Merge(d, [weekId |-> w]) :
        d \in {EmptyObj} \cup {[entryDate |-> v] : v \in EntryDates},
        w \in {"2026-W04", "2026-W05"}}
EntrySheetRows ==
    {[riqi |-> v, weekId |-> w] : v \in EntryDates, w \in {"2026-W04", "2026-W05"}}

EntriesSqlReplies ==
    {Reply("throw", <<>>), Reply("null", <<>>)}
        \cup {Reply("rows", r) : r \in SeqsUpTo(EntryDtos, MaxEntries)}

EntriesSheetReplies ==
    {Reply("throw", <<>>)} \cup {Reply("rows", r) : r \in SeqsUpTo(EntrySheetRows, MaxEntries)}

EntriesSqlRepliesFor(hasSql) == IF hasSql THEN EntriesSqlReplies ELSE {NoReply}

EntriesSheetRepliesFor(hasSql, sqlReply) ==
    IF hasSql /\ SqlPathReturns("ENTRIES", sqlReply) THEN {NoReply}
    ELSE EntriesSheetReplies

(***************************************************************************)
(* WeeklyBusinessService.getWeeklyDetails                                  *)
(***************************************************************************)
GetHolidays == "calendarService.getHolidaysForPeriod"
GetSystemConfig == "systemReader.getSystemConfig"
GetEvents == "calendarService.getEventsForPeriod"

\* the two calendars: stream A is config.PERSONAL_CALENDAR_ID, stream B is
\* config.CALENDAR_ID
StreamA == "PERSONAL_CALENDAR_ID"
StreamB == "CALENDAR_ID"

BlockRule == "DX_pingbi_guanjianzi"
TransferRule == "AT_zhuanyi_guanjianzi"
AllDay == "quantian"

\* a request that was issued and has not completed yet
Pending == Reply("pending", <<>>)

\* the Monday of a week, in days after 2026-01-19
WeekStart(weekId) ==
    CASE weekId = "2026-W03" -> 0 - 7
      [] weekId = "2026-W04" -> 0
      [] weekId = "2026-W05" -> 7
      [] weekId = "2026-W07" -> 21

\* dateHelpers.getWeekInfo(weekId): title, date range and the days of the
\* week; different weeks have different titles
WeekInfo(weekId) ==
    [title |-> "week " \o weekId,
     dateRange |-> DateString(WeekStart(weekId)) \o " - " \o DateString(WeekStart(weekId) + 6),
     days |-> [i \in 1..7 |-> [date |-> DateString(WeekStart(weekId) + i - 1)]]]

\* dateHelpers.getWeekId(today)
WeekIdOf(today) ==
    CASE today = "2026-01-28" -> "2026-W05"
      [] today = "2026-02-11" -> "2026-W07"

\* the calendar events a stream can hold
CalendarEvents ==
    {[summary |-> "B", start |-> [date |-> "2026-01-19"]],
     [summary |-> "T", start |-> [dateTime |-> "2026-01-20T09:30:00+08:00"]],
     [summary |-> "TB", start |-> [date |-> "2026-01-21",
                                     dateTime |-> "2026-01-22T10:00:00+08:00"]],
     [summary |-> "b", start |-> EmptyObj],
     [summary |-> "x"],
     [start |-> [dateTime |-> "2026-01-20T02:00:00+08:00"]]}

\* the rules of the filter rule list; the last one has no note
FilterRuleLists ==
    {<<>>,
     <<[value |-> BlockRule, note |-> "B"]>>,
     <<[value |-> BlockRule, note |-> " B , "], [value |-> TransferRule, note |-> "T"]>>,
     <<[value |-> "other", note |-> "x"], [value |-> TransferRule, note |-> "T,B"]>>,
     <<[value |-> BlockRule]>>}

\* what getSystemConfig can reply: a throw, no configuration at all, a
\* configuration without the rule list, one whose rule list is not an array,
\* one with a rule list
SystemConfigReplies ==
    {Reply("throw", <<>>), Reply("null", <<>>), Reply("noRules", <<>>),
     Reply("badRules", <<>>)}
        \cup {Reply("rules", r) : r \in FilterRuleLists}

\* what getHolidaysForPeriod can reply: a throw or a Map from date to name,
\* written as its list of entries
HolidayReplies ==
    {Reply("throw", <<>>),
     Reply("rows", <<[date |-> "2026-01-19", name |-> "h"]>>)}

\* lines 276 and 280: (results[1] || {})[rule list key] || []
FilterRules(configReply) ==
    IF configReply.kind = "rules" THEN configReply.rows ELSE <<>>

\* rules.find(r => r.value === value): index of the first such rule, 0 if none
FindRule(rules, value) ==
    LET hits == {i \in 1..Len(rules) : Get(rules[i], "value") = value}
    IN  IF hits = {} THEN 0 ELSE CHOOSE i \in hits : \A j \in hits : i <= j

\* (rule ? rule.note : '')
NoteOf(rules, value) ==
    IF FindRule(rules, value) = 0 THEN ""
    ELSE Get(rules[FindRule(rules, value)], "note")

\* note.split(',').map(s => s.trim()).filter(Boolean)
KeywordsOf(note) ==
    LET parts == Split(Chars(note), ",")
        trimmed == [i \in 1..Len(parts) |-> Trim(parts[i])]
    IN  SelectSeq(trimmed, LAMBDA k : k # <<>>)

\* a rule list that must be there: missing configuration is an error too
RulesMissingIsError(configReply) ==
    \/ configReply.kind \in {"null", "noRules", "badRules"}
    \/ \E v \in {BlockRule, TransferRule} : NoteOf(FilterRules(configReply), v) = UNDEF

\* lines 280-285 throw a TypeError: rules.find is not a function, or
\* .split of a note that is undefined
RulesTypeError(configReply) ==
    \/ configReply.kind = "badRules"
    \/ \E v \in {BlockRule, TransferRule} : NoteOf(FilterRules(configReply), v) = UNDEF

\* keywords.some(kw => (evt.summary || '').includes(kw)), case ignored
MatchesAnyKeywordFolded(evt, keywords) ==
    LET fold(c) == IF c = "b" THEN "B" ELSE c
        summary == Chars(Or(Get(evt, "summary"), ""))
        folded == [i \in 1..Len(summary) |-> fold(summary[i])]
    IN  \E i \in 1..Len(keywords) : Includes(folded, keywords[i])

\* keywords.some(kw => (evt.summary || '').includes(kw))
MatchesAnyKeyword(evt, keywords) ==
    \E i \in 1..Len(keywords) :
        Includes(Chars(Or(Get(evt, "summary"), "")), keywords[i])

\* a classification that applies the block rule to both streams
FinalDxListBlockingBoth(rawDxEvents, rawAtEvents, dxBlockKeywords, atTransferKeywords) ==
    SelectSeq(rawDxEvents, LAMBDA e : ~MatchesAnyKeyword(e, dxBlockKeywords))
        \o SelectSeq(rawAtEvents, LAMBDA e : /\ MatchesAnyKeyword(e, atTransferKeywords)
                                             /\ ~MatchesAnyKeyword(e, dxBlockKeywords))

\* lines 290-301: bucket A takes the events of stream A that are not
\* blocked, then the events of stream B that are transferred
FinalDxList(rawDxEvents, rawAtEvents, dxBlockKeywords, atTransferKeywords) ==
    SelectSeq(rawDxEvents, LAMBDA e : ~MatchesAnyKeyword(e, dxBlockKeywords))
        \o SelectSeq(rawAtEvents, LAMBDA e : MatchesAnyKeyword(e, atTransferKeywords))

\* lines 296-301: bucket B takes the events of stream B that are not transferred
FinalAtList(rawAtEvents, atTransferKeywords) ==
    SelectSeq(rawAtEvents, LAMBDA e : ~MatchesAnyKeyword(e, atTransferKeywords))

\* event.start.dateTime || event.start.date
StartVal(event) ==
    Or(Get(event.start, "dateTime"), Get(event.start, "date"))

\* line 306 throws a TypeError: event.start is undefined
StartMissing(events) ==
    \E i \in 1..Len(events) : "start" \notin DOMAIN events[i]

\* lines 315-325: what a day bucket holds for an event
DayItem(event, zone) ==
    LET isAllDay == Truthy(Get(event.start, "date"))
    IN  [summary |-> Get(event, "summary"),
         isAllDay |-> isAllDay,
         time |-> IF isAllDay THEN AllDay
                  ELSE LocaleTimeString(ParseStart(StartVal(event)), zone),
         htmlLink |-> Get(event, "htmlLink"),
         location |-> Get(event, "location"),
         description |-> Get(event, "description")]

\* organizeEventsByDay(events) from event i on, map being what is bucketed
\* so far
RECURSIVE OrganizeEventsByDay(_, _, _, _)
OrganizeEventsByDay(events, i, zone, map) ==
    IF i > Len(events) THEN map
    ELSE IF Falsy(StartVal(events[i]))
    THEN OrganizeEventsByDay(events, i + 1, zone, map)
    ELSE LET dateKey == LocaleDateString(ParseStart(StartVal(events[i])), zone)
             item == DayItem(events[i], zone)
         IN  OrganizeEventsByDay(events, i + 1, zone,
                IF dateKey \in DOMAIN map
                THEN [map EXCEPT ![dateKey] = Append(@, item)]
                ELSE map @@ (dateKey :> <<item>>))

\* holidays.has(date) and holidays.get(date)
HolidaysHas(holidays, date) == \E i \in 1..Len(holidays) : holidays[i].date = date
HolidaysGet(holidays, date) ==
    holidays[CHOOSE i \in 1..Len(holidays) :
                /\ holidays[i].date = date
                /\ \A j \in 1..Len(holidays) : holidays[j].date = date => j <= i].name

\* lines 332-336: a day of the week with its holiday and its two buckets
DayOf(day, holidays, dxEventsByDay, atEventsByDay) ==
    Merge(Merge(day, IF HolidaysHas(holidays, day.date)
                     THEN [holidayName |-> HolidaysGet(holidays, day.date)]
                     ELSE EmptyObj),
          [dxCalendarEvents |-> IF day.date \in DOMAIN dxEventsByDay
                                THEN dxEventsByDay[day.date] ELSE <<>>,
           atCalendarEvents |-> IF day.date \in DOMAIN atEventsByDay
                                THEN atEventsByDay[day.date] ELSE <<>>])

\* what the handler holds before the events are classified
NoDetails(entries) ==
    [entries |-> entries, classified |-> FALSE,
     finalDxList |-> <<>>, finalAtList |-> <<>>,
     dxEventsByDay |-> EmptyObj, atEventsByDay |-> EmptyObj]

\* results[2] || [] and results[3] || []: the events of a stream, none when
\* the calendar is not configured or the reply is null
EventsOf(eventsReply) == IF eventsReply.kind = "rows" THEN eventsReply.rows ELSE <<>>

\* getWeeklyDetails from line 275 on, once Promise.all has resolved with the
\* four results
WeeklyDetailsFrom(weekId, zone, entries, holidaysReply, configReply, dxReply, atReply) ==
    LET weekInfo == WeekInfo(weekId)
        rules == FilterRules(configReply)
        dxBlockKeywords == KeywordsOf(NoteOf(rules, BlockRule))
        atTransferKeywords == KeywordsOf(NoteOf(rules, TransferRule))
        finalDxList == FinalDxList(EventsOf(dxReply), EventsOf(atReply),
                                   dxBlockKeywords, atTransferKeywords)
        finalAtList == FinalAtList(EventsOf(atReply), atTransferKeywords)
        dxEventsByDay == OrganizeEventsByDay(finalDxList, 1, zone, EmptyObj)
        atEventsByDay == OrganizeEventsByDay(finalAtList, 1, zone, EmptyObj)
        classified == [NoDetails(entries) EXCEPT !.classified = TRUE,
                                                 !.finalDxList = finalDxList,
                                                 !.finalAtList = finalAtList]
        days == [i \in 1..Len(weekInfo.days) |->
                    DayOf(weekInfo.days[i], holidaysReply.rows, dxEventsByDay, atEventsByDay)]
    IN  IF RulesTypeError(configReply)
        THEN [locals |-> NoDetails(entries), result |-> Threw("TypeError")]
        ELSE IF StartMissing(finalDxList) \/ StartMissing(finalAtList)
        THEN [locals |-> classified, result |-> Threw("TypeError")]
        ELSE [locals |-> [classified EXCEPT !.dxEventsByDay = dxEventsByDay,
                                            !.atEventsByDay = atEventsByDay],
              result |-> Returned("obj", <<>>,
                            Merge(Merge([id |-> weekId], [weekInfo EXCEPT !.days = days]),
                                  [entries |-> entries]))]

\* lines 253-272: the requests of the fan-out, issued in this order; a
\* calendar that is not configured is not asked
Queries(hasPersonal, hasCalendar) ==
    <<Call(GetHolidays, <<>>, Pending), Call(GetSystemConfig, <<>>, Pending)>>
        \o (IF hasPersonal THEN <<Call(GetEvents, <<StreamA>>, Pending)>> ELSE <<>>)
        \o (IF hasCalendar THEN <<Call(GetEvents, <<StreamB>>, Pending)>> ELSE <<>>)

\* what getEventsForPeriod can reply
EventReplies ==
    {Reply("throw", <<>>), Reply("null", <<>>)}
        \cup {Reply("rows", r) : r \in SeqsUpTo(CalendarEvents, MaxEvents)}

\* what a request of the fan-out can reply
QueryReplies(call) ==
    CASE call.fn = GetHolidays -> HolidayReplies
      [] call.fn = GetSystemConfig -> SystemConfigReplies
      [] call.fn = GetEvents -> EventReplies

\* the requests of the fan-out in the call log
FanOut == {i \in 1..Len(calls) : calls[i].fn \in {GetHolidays, GetSystemConfig, GetEvents}}

\* results[k] of Promise.all: the reply of the request, [] for a calendar
\* that was not asked
ResultOf(fn, arg) ==
    LET at == {i \in FanOut : calls[i].fn = fn /\ calls[i].arg = arg}
    IN  IF at = {} THEN Reply("rows", <<>>) ELSE calls[CHOOSE i \in at : TRUE].reply

\* a Promise.all that resumes as soon as the system configuration is there
AllSettledConfigOnly ==
    \A i \in FanOut : calls[i].fn = GetSystemConfig => calls[i].reply # Pending

\* Promise.all resolves: every request of the fan-out has completed
AllSettled == \A i \in FanOut : calls[i].reply # Pending

\* Promise.all rejects: a request of the fan-out has failed
SomeRejected == \E i \in FanOut : calls[i].reply.kind = "throw"

(***************************************************************************)
(* WeeklyBusinessService.getWeeklyBusinessSummaryList                      *)
(***************************************************************************)
\* the records the summary is built from, SQL DTOs and sheet rows alike:
\* with or without weekId, matching the week pattern or not, the summary
\* under the native or the localized key, empty, blank or not
SummaryListRows ==
    {Merge(w, c) :
        w \in {EmptyObj, [weekId |-> "2026-3"], [weekId |-> "2026-W03"],
               [weekId |-> "2026-W05"]},
        c \in {[summaryContent |-> ""], [summaryContent |-> " "],
               [summaryContent |-> "a"], [zhaiyao |-> " a "]}}

SummaryListSqlReplies ==
    {Reply("throw", <<>>), Reply("null", <<>>)}
        \cup {Reply("rows", r) : r \in SeqsUpTo(SummaryListRows, MaxRows)}

SummaryListSheetReplies ==
    {Reply("throw", <<>>)} \cup {Reply("rows", r) : r \in SeqsUpTo(SummaryListRows, MaxRows)}

\* /^\d{4}-W\d{2}$/.test(weekId)
MatchesWeekId(v) == v \in {"2026-W03", "2026-W04", "2026-W05", "2026-W07"}

\* a count of every summary that is not the empty string
HasSummaryUntrimmed(item) ==
    Truthy(Or(Get(item, "summaryContent"), Get(item, "zhaiyao")))

\* lines 194 and 200: content && content.trim() !== ''
HasSummary(item) ==
    LET content == Or(Get(item, "summaryContent"), Get(item, "zhaiyao"))
    IN  Truthy(content) /\ Trim(Chars(content)) # <<>>

\* lines 190-204: weekSummaryMap after the records from i on, as the list of
\* its values in insertion order
RECURSIVE WeekSummaryMap(_, _, _)
WeekSummaryMap(rawData, i, map) ==
    IF i > Len(rawData) THEN map
    ELSE LET weekId == Get(rawData[i], "weekId")
             at == {k \in 1..Len(map) : map[k].weekId = weekId}
             withWeek == IF at = {}
                         THEN Append(map, [weekId |-> weekId, summaryCount |-> 0])
                         ELSE map
             k == CHOOSE j \in 1..Len(withWeek) : withWeek[j].weekId = weekId
         IN  IF Truthy(weekId) /\ MatchesWeekId(weekId)
             THEN WeekSummaryMap(rawData, i + 1,
                     IF HasSummary(rawData[i])
                     THEN [withWeek EXCEPT ![k].summaryCount = @ + 1]
                     ELSE withWeek)
             ELSE WeekSummaryMap(rawData, i + 1, map)

\* lines 207-217 and 225-230: an entry of the list
WeekEntry(weekId, summaryCount) ==
    [id |-> weekId, title |-> WeekInfo(weekId).title,
     dateRange |-> WeekInfo(weekId).dateRange, summaryCount |-> summaryCount]

\* a presence test that never finds the current week
HasCurrentWeekNever(weeksList, currentWeekId) == FALSE

\* line 222: weeksList.some(w => w.title === currentWeekInfo.title)
HasCurrentWeek(weeksList, currentWeekId) ==
    \E i \in 1..Len(weeksList) : weeksList[i].title = WeekInfo(currentWeekId).title

\* a.localeCompare(b) > 0 for two week identifiers
ComparesAfter(a, b) == WeekStart(a) > WeekStart(b)

\* weeksList.sort((a, b) => b.id.localeCompare(a.id)): a stable insertion
RECURSIVE InsertById(_, _)
InsertById(sorted, x) ==
    IF sorted = <<>> THEN <<x>>
    ELSE LET last == sorted[Len(sorted)]
         IN  IF ComparesAfter(x.id, last.id)
             THEN Append(InsertById(SubSeq(sorted, 1, Len(sorted) - 1), x), last)
             ELSE Append(sorted, x)

RECURSIVE SortByIdDesc(_)
SortByIdDesc(weeksList) ==
    IF weeksList = <<>> THEN <<>>
    ELSE InsertById(SortByIdDesc(SubSeq(weeksList, 1, Len(weeksList) - 1)),
                    weeksList[Len(weeksList)])

\* one execution of getWeeklyBusinessSummaryList(), given today's date and
\* what each reader replies when (and if) it is called
SummaryList(today, hasSql, sqlReply, sheetReply) ==
    LET f == FetchInternal("SUMMARY", hasSql, sqlReply, sheetReply)
        summaryData == WeekSummaryMap(f.result.rows, 1, <<>>)
        weeksList == [i \in 1..Len(summaryData) |->
                         WeekEntry(summaryData[i].weekId, summaryData[i].summaryCount)]
        currentWeekId == WeekIdOf(today)
        withCurrent == IF HasCurrentWeek(weeksList, currentWeekId) THEN weeksList
                       ELSE <<WeekEntry(currentWeekId, 0)>> \o weeksList
    IN  [log |-> f.log,
         result |-> IF f.result.kind = "throw" THEN f.result
                    \* rawData.forEach of null
                    ELSE IF f.result.kind = "null" THEN Threw("TypeError")
                    ELSE Returned("rows", SortByIdDesc(withCurrent), EmptyObj)]

SummaryListSqlRepliesFor(hasSql) ==
    IF hasSql THEN SummaryListSqlReplies ELSE {NoReply}

SummaryListSheetRepliesFor(hasSql, sqlReply) ==
    IF hasSql /\ SqlPathReturns("SUMMARY", sqlReply) THEN {NoReply}
    ELSE SummaryListSheetReplies

(***************************************************************************)
(* Contact service: getContactById                                         *)
(***************************************************************************)
SqlGetContactById == "contactSqlReader.getContactById"

\* what contactSqlReader.getContactById(contactId) can reply: a throw, null
\* (no such contact) or the one contact of that id
SqlContactByIdReplies(contactId) ==
    {Reply("throw", <<>>), Reply("null", <<>>)}
        \cup {Reply("rows", <<c>>) : c \in {d \in SqlContacts : d.contactId = contactId}}

\* contacts.find(c => c.contactId === contactId): index of the first match,
\* 0 when there is none
FindContact(contacts, contactId, i) ==
    LET hits == {j \in i..Len(contacts) : Get(contacts[j], "contactId") = contactId}
    IN  IF hits = {} THEN 0 ELSE CHOOSE j \in hits : \A k \in hits : j <= k

\* a fallback that reports a contact it cannot find as an error
ContactByIdFallbackThrowsOnMiss(contactId, hasSqlReader, log, sheetReply, companyReply) ==
    LET read == FetchOfficialContacts(TRUE, hasSqlReader, NoReply, sheetReply, companyReply)
        at == FindContact(read.result.rows, contactId, 1)
    IN  [log |-> log \o read.log,
         result |-> IF read.result.kind = "throw" THEN read.result
                    ELSE IF at = 0 THEN Threw("NotFound")
                    ELSE Returned("obj", <<>>, read.result.rows[at])]

\* lines 273-288: the fallback read through the legacy reader
ContactByIdFallback(contactId, hasSqlReader, log, sheetReply, companyReply) ==
    LET read == FetchOfficialContacts(TRUE, hasSqlReader, NoReply, sheetReply, companyReply)
        at == FindContact(read.result.rows, contactId, 1)
    IN  [log |-> log \o read.log,
         result |-> IF read.result.kind = "throw" THEN read.result
                    ELSE IF at = 0 THEN Returned("null", <<>>, EmptyObj)
                    ELSE Returned("obj", <<>>, read.result.rows[at])]

\* one execution of getContactById(contactId), given what each reader
\* replies when (and if) it is called
GetContactByIdRun(contactId, hasSqlReader, sqlReply, joinReply, sheetReply, companyReply) ==
    LET sqlCall == Call(SqlGetContactById, <<contactId>>, sqlReply)
        joinCall == Call(CompanyGetList, <<>>, joinReply)
    IN  IF ~hasSqlReader
        THEN ContactByIdFallback(contactId, hasSqlReader, <<>>, sheetReply, companyReply)
        ELSE IF sqlReply.kind # "rows"
        THEN ContactByIdFallback(contactId, hasSqlReader, <<sqlCall>>, sheetReply, companyReply)
        ELSE IF joinReply.kind = "throw"
        \* lines 254-266: getCompanyList is awaited inside the try block of the
        \* SQL read, so its failure is caught like a failure of the SQL read
        THEN ContactByIdFallback(contactId, hasSqlReader, <<sqlCall, joinCall>>,
                                 sheetReply, companyReply)
        ELSE [log |-> <<sqlCall, joinCall>>,
              result |-> Returned("obj", <<>>,
                            MapOfficialContact(MapSqlContact(sqlReply.rows[1]),
                                               joinReply.rows))]

SqlContactByIdRepliesFor(contactId, hasSqlReader) ==
    IF hasSqlReader THEN SqlContactByIdReplies(contactId) ELSE {NoReply}

\* the company reader is called for the join only after a SQL hit
JoinRepliesFor(hasSqlReader, sqlReply) ==
    IF hasSqlReader /\ sqlReply.kind = "rows" THEN CompanyReplies ELSE {NoReply}

\* the legacy reader is called unless the SQL hit was joined and returned
ContactByIdLegacyRepliesFor(hasSqlReader, sqlReply, joinReply) ==
    IF hasSqlReader /\ sqlReply.kind = "rows" /\ joinReply.kind # "throw"
    THEN {NoReply} ELSE LegacyContactReplies

\* the company reader is called in the fallback once the legacy read succeeded
ContactByIdCompanyRepliesFor(sheetReply) ==
    IF sheetReply.kind = "rows" THEN CompanyReplies ELSE {NoReply}

(***************************************************************************)
(* ContactService.searchOfficialContacts                                   *)
(***************************************************************************)
\* the page size of line 223 when the configuration has no PAGINATION
DefaultPageSize == 20

\* str.toLowerCase(), character by character
ToLowerCase(text) ==
    [i \in 1..Len(text) |->
        CASE text[i] = "B" -> "b"
          [] text[i] = "T" -> "t"
          [] OTHER -> text[i]]

\* lines 216-217: the name or the company name holds the search term
MatchesQuery(contact, searchTerm) ==
    \/ /\ Truthy(Get(contact, "name"))
       /\ Includes(ToLowerCase(Chars(Get(contact, "name"))), searchTerm)
    \/ /\ Truthy(Get(contact, "companyName"))
       /\ Includes(ToLowerCase(Chars(Get(contact, "companyName"))), searchTerm)

\* lines 213-219: the filter is applied when a query is given
FilterContacts(contacts, query) ==
    IF Truthy(query)
    THEN SelectSeq(contacts, LAMBDA c : MatchesQuery(c, ToLowerCase(Chars(query))))
    ELSE contacts

\* line 223: config is what the constructor kept of its argument
PageSize(config) ==
    IF "PAGINATION" \in DOMAIN config
    THEN config.PAGINATION.CONTACTS_PER_PAGE
    ELSE DefaultPageSize

\* list.slice(start, end) for 0 <= start <= end
Slice(list, start, end) ==
    LET from == IF start < Len(list) THEN start ELSE Len(list)
        to == IF end < Len(list) THEN end ELSE Len(list)
    IN  SubSeq(list, from + 1, to)

\* Math.ceil(n / d) for n >= 0 and d > 0
Ceil(n, d) == (n + d - 1) \div d

\* a pagination whose hasNext is also true on a page that ends the list
SearchPageNextWhenFull(contacts, page, pageSize) ==
    LET startIndex == (page - 1) * pageSize
    IN  [data |-> Slice(contacts, startIndex, startIndex + pageSize),
         pagination |-> [current |-> page,
                         total |-> Ceil(Len(contacts), pageSize),
                         totalItems |-> Len(contacts),
                         hasNext |-> (startIndex + pageSize) <= Len(contacts),
                         hasPrev |-> page > 1]]

\* lines 223-236
SearchPage(contacts, page, pageSize) ==
    LET startIndex == (page - 1) * pageSize
    IN  [data |-> Slice(contacts, startIndex, startIndex + pageSize),
         pagination |-> [current |-> page,
                         total |-> Ceil(Len(contacts), pageSize),
                         totalItems |-> Len(contacts),
                         hasNext |-> (startIndex + pageSize) < Len(contacts),
                         hasPrev |-> page > 1]]

\* one execution of searchOfficialContacts(query, page); an error of the
\* fetch is logged and thrown again (lines 237-240)
SearchOfficialContacts(query, page, config, hasSqlReader, sqlReply, sheetReply, companyReply) ==
    LET f == FetchOfficialContacts(FALSE, hasSqlReader, sqlReply, sheetReply, companyReply)
        contacts == FilterContacts(f.result.rows, query)
        found == SearchPage(contacts, page, PageSize(config))
    IN  IF f.result.kind = "throw"
        THEN [log |-> f.log, filtered |-> <<>>, result |-> f.result]
        ELSE [log |-> f.log, filtered |-> contacts,
              result |-> Returned("page", found.data, found.pagination)]

\* the contacts either reader hands out: with or without a name
SearchContacts ==
    {Merge([contactId |-> "c1", companyId |-> "k1"], n) :
        n \in {EmptyObj, [name |-> "a"], [name |-> "B"]}}

SearchSqlReplies ==
    {Reply("throw", <<>>)} \cup {Reply("rows", r) : r \in SeqsUpTo(SearchContacts, MaxContacts)}

SearchSheetReplies ==
    {Reply("throw", <<>>)} \cup {Reply("rows", r) : r \in SeqsUpTo(SearchContacts, MaxContacts)}

SearchCompanyReplies ==
    {Reply("throw", <<>>), Reply("rows", <<>>),
     Reply("rows", <<[companyId |-> "k1", companyName |-> "B"]>>)}

SearchSqlRepliesFor(hasSqlReader) ==
    IF SqlContactsTried(FALSE, hasSqlReader) THEN SearchSqlReplies ELSE {NoReply}

SearchSheetRepliesFor(hasSqlReader, sqlReply) ==
    IF SqlContactsTried(FALSE, hasSqlReader) /\ SqlContactsUsable(sqlReply)
    THEN {NoReply}
    ELSE SearchSheetReplies

SearchCompanyRepliesFor(sheetReply) ==
    IF sheetReply.kind = "throw" THEN {NoReply} ELSE SearchCompanyReplies

(***************************************************************************)
(* Requests                                                                *)
(***************************************************************************)
NormalizeRequests == {[op |-> "normalize", raw |-> r] : r \in RawRecords}

FetchRequests ==
    {[op |-> "fetch", mode |-> m, hasSql |-> h] : m \in Modes, h \in BOOLEAN}

RecordIds == {"r1", "r2", "r3", UNDEF}

WriteRequests ==
    {[op |-> o, recordId |-> i, data |-> d, hasSql |-> h] :
        o \in {"update", "delete"}, i \in RecordIds,
        d \in {EmptyObj, [creator |-> "u"]}, h \in BOOLEAN}

ContactFetchRequests ==
    {[op |-> "fetchContacts", forceSheet |-> f, hasSqlReader |-> h] :
        f \in BOOLEAN, h \in BOOLEAN}

ContactMutationRequests ==
    {[op |-> o, contactId |-> i, hasSqlWriter |-> w, hasContactReader |-> r] :
        o \in ContactMutations, i \in {"c1", "c2"}, w \in BOOLEAN, r \in BOOLEAN}

ContactByIdRequests ==
    {[op |-> "getContactById", contactId |-> i, hasSqlReader |-> h] :
        i \in {"c1", "c3"}, h \in BOOLEAN}

WeeklyDetailsRequests ==
    {[op |-> "getWeeklyDetails", weekId |-> "2026-W04", zone |-> z,
      hasPersonal |-> a, hasCalendar |-> b, hasSql |-> FALSE] :
        z \in {"Asia/Taipei", "America/New_York"}, a \in BOOLEAN, b \in BOOLEAN}

\* what the sheet reader replies to the getEntriesForWeek of getWeeklyDetails
WeeklyDetailsEntryReplies ==
    {Reply("throw", <<>>),
     Reply("rows", <<[riqi |-> "2026-01-19", weekId |-> "2026-W04", recordId |-> "r1"]>>)}

SummaryListRequests ==
    {[op |-> "getWeeklyBusinessSummaryList", today |-> d, hasSql |-> h] :
        d \in {"2026-01-28", "2026-02-11"}, h \in BOOLEAN}

EntriesForWeekRequests ==
    {[op |-> "getEntriesForWeek", weekId |-> "2026-W04", hasSql |-> h] : h \in BOOLEAN}

SearchRequests ==
    {[op |-> "searchOfficialContacts", query |-> q, page |-> n, config |-> c,
      hasSqlReader |-> h] :
        q \in {UNDEF, "a", "B"}, n \in 1..MaxPage,
        c \in {EmptyObj} \cup {[PAGINATION |-> [CONTACTS_PER_PAGE |-> k]] : k \in 1..MaxPageSize},
        h \in BOOLEAN}

PotentialContactRequests ==
    {[op |-> "updatePotentialContact", rowIndex |-> i, updateData |-> d, modifier |-> "u"] :
        i \in {"#2", "2", "x"},
        d \in {EmptyObj, [notes |-> "new"], [name |-> "a"]}}

Init ==
    /\ pc = "called"
    /\ \/ req \in NormalizeRequests
       \/ req \in FetchRequests
       \/ req \in WriteRequests
       \/ req \in ContactFetchRequests
       \/ req \in ContactMutationRequests
    /\ calls = <<>>
    /\ locals = NoLocals
    /\ ret = Returned("none", <<>>, EmptyObj)

Finish(log, seen, result) ==
    /\ pc' = "done"
    /\ calls' = log
    /\ locals' = seen
    /\ ret' = result
    /\ UNCHANGED req

\* _normalizeEntry(raw)
Normalize ==
    /\ pc = "called"
    /\ req.op = "normalize"
    /\ Finish(<<>>, NoLocals, Returned("obj", <<>>, NormalizeEntry(req.raw)))

\* _normalizeEntry applied to an entry that is already normalized: the
\* caller passes the previous result back in as the raw record
Renormalize ==
    /\ pc = "done"
    /\ req.op = "normalize"
    /\ req' = [op |-> "renormalize", raw |-> ret.obj]
    /\ ret' = Returned("obj", <<>>, NormalizeEntry(ret.obj))
    /\ UNCHANGED <<pc, calls, locals>>

\* _fetchInternal(mode)
Fetch ==
    /\ pc = "called"
    /\ req.op = "fetch"
    /\ \E s \in SqlRepliesFor(req.mode, req.hasSql) :
       \E t \in SheetRepliesFor(req.mode, req.hasSql, s) :
          LET run == FetchInternal(req.mode, req.hasSql, s, t)
          IN  Finish(run.log, NoLocals, run.result)

\* updateWeeklyBusinessEntry(recordId, data)
UpdateEntry ==
    /\ pc = "called"
    /\ req.op = "update"
    /\ \E s \in SqlRepliesFor("ENTRIES", req.hasSql) :
       \E t \in SheetRepliesFor("ENTRIES", req.hasSql, s) :
       \E w \in WriterRepliesFor("update", req.recordId, req.data, req.hasSql, s, t) :
          LET run == WriteEntry("update", req.recordId, req.data, req.hasSql, s, t, w)
          IN  Finish(run.log, run.locals, run.result)

\* deleteWeeklyBusinessEntry(recordId)
DeleteEntry ==
    /\ pc = "called"
    /\ req.op = "delete"
    /\ \E s \in SqlRepliesFor("ENTRIES", req.hasSql) :
       \E t \in SheetRepliesFor("ENTRIES", req.hasSql, s) :
       \E w \in WriterRepliesFor("delete", req.recordId, req.data, req.hasSql, s, t) :
          LET run == WriteEntry("delete", req.recordId, req.data, req.hasSql, s, t, w)
          IN  Finish(run.log, run.locals, run.result)

\* _fetchOfficialContactsWithCompanies(forceSheet)
FetchContacts ==
    /\ pc = "called"
    /\ req.op = "fetchContacts"
    /\ \E s \in SqlContactRepliesFor(req.forceSheet, req.hasSqlReader) :
       \E t \in LegacyContactRepliesFor(req.forceSheet, req.hasSqlReader, s) :
       \E c \in CompanyRepliesFor(t) :
          LET run == FetchOfficialContacts(req.forceSheet, req.hasSqlReader, s, t, c)
          IN  Finish(run.log, NoLocals, run.result)

\* createContact(contactData, user)
CreateContact ==
    /\ pc = "called"
    /\ req.op = "createContact"
    /\ \E w \in ContactWriterRepliesFor(req.hasSqlWriter) :
          LET run == ContactMutation("createContact", req.contactId, req.hasSqlWriter,
                                     req.hasContactReader, w)
          IN  Finish(run.log, NoLocals, run.result)

\* updateContact(contactId, updateData, user)
UpdateContact ==
    /\ pc = "called"
    /\ req.op = "updateContact"
    /\ \E w \in ContactWriterRepliesFor(req.hasSqlWriter) :
          LET run == ContactMutation("updateContact", req.contactId, req.hasSqlWriter,
                                     req.hasContactReader, w)
          IN  Finish(run.log, NoLocals, run.result)

\* deleteContact(contactId, user)
DeleteContact ==
    /\ pc = "called"
    /\ req.op = "deleteContact"
    /\ \E w \in ContactWriterRepliesFor(req.hasSqlWriter) :
          LET run == ContactMutation("deleteContact", req.contactId, req.hasSqlWriter,
                                     req.hasContactReader, w)
          IN  Finish(run.log, NoLocals, run.result)

Next ==
    \/ Normalize
    \/ Renormalize
    \/ Fetch
    \/ UpdateEntry
    \/ DeleteEntry
    \/ FetchContacts
    \/ CreateContact
    \/ UpdateContact
    \/ DeleteContact

Spec == Init /\ [][Next]_vars

(***************************************************************************)
(* getEntriesForWeek as a state machine of its own                         *)
(***************************************************************************)
InitEntriesForWeek ==
    /\ pc = "called"
    /\ req \in EntriesForWeekRequests
    /\ calls = <<>>
    /\ locals = NoLocals
    /\ ret = Returned("none", <<>>, EmptyObj)

\* getEntriesForWeek(weekId)
GetEntries ==
    /\ pc = "called"
    /\ req.op = "getEntriesForWeek"
    /\ \E s \in EntriesSqlRepliesFor(req.hasSql) :
       \E t \in EntriesSheetRepliesFor(req.hasSql, s) :
       \E o \in SortOutcomes(MatchingEntries(req.weekId, req.hasSql, s, t)) :
          LET run == GetEntriesForWeek(req.weekId, req.hasSql, s, t, o)
          IN  Finish(run.log, NoLocals, Returned("rows", run.entries, EmptyObj))

NextEntriesForWeek == GetEntries

SpecEntriesForWeek == InitEntriesForWeek /\ [][NextEntriesForWeek]_vars

(***************************************************************************)
(* getWeeklyDetails as a state machine of its own: the requests of the     *)
(* fan-out complete one at a time, in any order                            *)
(***************************************************************************)
InitWeeklyDetails ==
    /\ pc = "called"
    /\ req \in WeeklyDetailsRequests
    /\ calls = <<>>
    /\ locals = NoLocals
    /\ ret = Returned("none", <<>>, EmptyObj)

\* getWeeklyDetails, lines 245-274: the entries of the week are awaited,
\* then the requests of the fan-out are issued and Promise.all is awaited
IssueQueries ==
    /\ pc = "called"
    /\ req.op = "getWeeklyDetails"
    /\ \E t \in WeeklyDetailsEntryReplies :
       \E o \in SortOutcomes(MatchingEntries(req.weekId, req.hasSql, NoReply, t)) :
          LET run == GetEntriesForWeek(req.weekId, req.hasSql, NoReply, t, o)
          IN  /\ calls' = run.log \o Queries(req.hasPersonal, req.hasCalendar)
              /\ locals' = NoDetails(run.entries)
    /\ pc' = "awaiting"
    /\ UNCHANGED <<req, ret>>

\* a request of the fan-out completes or fails; once one has failed the
\* handler resumes before any other completion is delivered
SettleQuery ==
    /\ pc = "awaiting"
    /\ ~SomeRejected
    /\ \E i \in FanOut :
          /\ calls[i].reply = Pending
          /\ \E r \in QueryReplies(calls[i]) :
                calls' = [calls EXCEPT ![i].reply = r]
    /\ UNCHANGED <<pc, req, locals, ret>>

\* line 274 throws: the first failure of the fan-out fails the whole call
RejectAll ==
    /\ pc = "awaiting"
    /\ SomeRejected
    /\ pc' = "done"
    /\ ret' = Threw("QueryError")
    /\ UNCHANGED <<req, calls, locals>>

\* getWeeklyDetails, lines 274-343: Promise.all has resolved
ClassifyAndReturn ==
    /\ pc = "awaiting"
    /\ ~SomeRejected
    /\ AllSettled
    /\ LET run == WeeklyDetailsFrom(req.weekId, req.zone, locals.entries,
                                    ResultOf(GetHolidays, <<>>),
                                    ResultOf(GetSystemConfig, <<>>),
                                    ResultOf(GetEvents, <<StreamA>>),
                                    ResultOf(GetEvents, <<StreamB>>))
       IN  /\ locals' = run.locals
           /\ ret' = run.result
    /\ pc' = "done"
    /\ UNCHANGED <<req, calls>>

NextWeeklyDetails ==
    \/ IssueQueries
    \/ SettleQuery
    \/ RejectAll
    \/ ClassifyAndReturn

SpecWeeklyDetails == InitWeeklyDetails /\ [][NextWeeklyDetails]_vars

(***************************************************************************)
(* getWeeklyBusinessSummaryList as a state machine of its own              *)
(***************************************************************************)
InitSummaryList ==
    /\ pc = "called"
    /\ req \in SummaryListRequests
    /\ calls = <<>>
    /\ locals = NoLocals
    /\ ret = Returned("none", <<>>, EmptyObj)

\* getWeeklyBusinessSummaryList()
GetSummaryList ==
    /\ pc = "called"
    /\ req.op = "getWeeklyBusinessSummaryList"
    /\ \E s \in SummaryListSqlRepliesFor(req.hasSql) :
       \E t \in SummaryListSheetRepliesFor(req.hasSql, s) :
          LET run == SummaryList(req.today, req.hasSql, s, t)
          IN  Finish(run.log, NoLocals, run.result)

NextSummaryList == GetSummaryList

SpecSummaryList == InitSummaryList /\ [][NextSummaryList]_vars

(***************************************************************************)
(* getContactById as a state machine of its own                            *)
(***************************************************************************)
InitContactById ==
    /\ pc = "called"
    /\ req \in ContactByIdRequests
    /\ calls = <<>>
    /\ locals = NoLocals
    /\ ret = Returned("none", <<>>, EmptyObj)

\* getContactById(contactId)
GetContactById ==
    /\ pc = "called"
    /\ req.op = "getContactById"
    /\ \E s \in SqlContactByIdRepliesFor(req.contactId, req.hasSqlReader) :
       \E j \in JoinRepliesFor(req.hasSqlReader, s) :
       \E t \in ContactByIdLegacyRepliesFor(req.hasSqlReader, s, j) :
       \E c \in ContactByIdCompanyRepliesFor(t) :
          LET run == GetContactByIdRun(req.contactId, req.hasSqlReader, s, j, t, c)
          IN  Finish(run.log, NoLocals, run.result)

NextContactById == GetContactById

SpecContactById == InitContactById /\ [][NextContactById]_vars

(***************************************************************************)
(* searchOfficialContacts as a state machine of its own                    *)
(***************************************************************************)
InitSearch ==
    /\ pc = "called"
    /\ req \in SearchRequests
    /\ calls = <<>>
    /\ locals = NoLocals
    /\ ret = Returned("none", <<>>, EmptyObj)

\* searchOfficialContacts(query, page)
SearchContactsPage ==
    /\ pc = "called"
    /\ req.op = "searchOfficialContacts"
    /\ \E s \in SearchSqlRepliesFor(req.hasSqlReader) :
       \E t \in SearchSheetRepliesFor(req.hasSqlReader, s) :
       \E c \in SearchCompanyRepliesFor(t) :
          LET run == SearchOfficialContacts(req.query, req.page, req.config,
                                            req.hasSqlReader, s, t, c)
          IN  Finish(run.log, [NoLocals EXCEPT !.entries = run.filtered], run.result)

NextSearch == SearchContactsPage

SpecSearch == InitSearch /\ [][NextSearch]_vars

(***************************************************************************)
(* The writes of ContactService as a state machine of their own            *)
(***************************************************************************)
InitContactWrites ==
    /\ pc = "called"
    /\ \/ req \in ContactMutationRequests
       \/ req \in PotentialContactRequests
    /\ calls = <<>>
    /\ locals = NoLocals
    /\ ret = Returned("none", <<>>, EmptyObj)

\* updatePotentialContact(rowIndex, updateData, modifier)
UpdatePotential ==
    /\ pc = "called"
    /\ req.op = "updatePotentialContact"
    /\ \E r \in PotentialReaderReplies :
       \E w \in PotentialWriterRepliesFor(req.rowIndex, r) :
       \E d \in LocaleDates :
          LET run == UpdatePotentialContact(req.rowIndex, req.updateData, req.modifier,
                                            d, r, w)
          IN  Finish(run.log, NoLocals, run.result)

NextContactWrites ==
    \/ CreateContact
    \/ UpdateContact
    \/ DeleteContact
    \/ UpdatePotential

SpecContactWrites == InitContactWrites /\ [][NextContactWrites]_vars

(***************************************************************************)
(* Update and delete of a weekly entry by two concurrent callers           *)
(*                                                                         *)
(* Each caller runs updateWeeklyBusinessEntry or deleteWeeklyBusinessEntry.*)
(* A call reads the entries as soon as it is made and is suspended at its  *)
(* await; when the read has settled its continuation looks the target up   *)
(* and dispatches the writer call, and is suspended again until the writer *)
(* has settled.  pc, req, locals and ret are kept per caller; calls is the *)
(* one log of the calls made to the collaborators, each with its caller.   *)
(***************************************************************************)
Callers == {"A", "B"}

\* what the sheet reader hands out to either caller
ConcurrentSheetReplies ==
    {Reply("throw", <<>>),
     Reply("rows", <<>>),
     Reply("rows", <<[riqi |-> "a", weekId |-> "w1", recordId |-> "r1", rowIndex |-> "#2"]>>),
     Reply("rows", <<[riqi |-> "a", weekId |-> "w1", recordId |-> "r1", rowIndex |-> "#1"]>>),
     Reply("rows", <<[riqi |-> "a", weekId |-> "w1", recordId |-> "r1"]>>),
     Reply("rows", <<[riqi |-> "a", weekId |-> "w1", recordId |-> "r2", rowIndex |-> "#2"],
                     [riqi |-> "a", weekId |-> "w1", recordId |-> "r1", rowIndex |-> "#1"]>>)}

ConcurrentWriteRequests ==
    {[op |-> o, recordId |-> "r1", data |-> EmptyObj, hasSql |-> FALSE] :
        o \in {"update", "delete"}}

\* the calls of one caller, as entries of the common log
LoggedBy(c, log) == [i \in 1..Len(log) |-> [caller |-> c, call |-> log[i]]]

\* what a caller has done when its read has settled with the reply read and
\* its writer has settled with the reply written
CallerRun(c, read, written) ==
    WriteEntry(req[c].op, req[c].recordId, req[c].data, req[c].hasSql, NoReply, read, written)

\* a service that holds a continuation back while a write of another
\* caller is in flight
ContinuationReadyWhenAlone(c) ==
    /\ pc[c] = "resolved"
    /\ \A d \in Callers \ {c} : pc[d] # "writing"

\* lines 391 and 418: the continuation of await this._fetchInternal runs
\* when the read of this caller has settled
ContinuationReady(c) == pc[c] = "resolved"

InitConcurrentWrites ==
    /\ pc = [c \in Callers |-> "called"]
    /\ req \in [Callers -> ConcurrentWriteRequests]
    /\ calls = <<>>
    /\ locals = [c \in Callers |-> Pending]
    /\ ret = [c \in Callers |-> Returned("none", <<>>, EmptyObj)]

\* the read of caller c settles
ReadSettlesFor(c) ==
    /\ pc[c] = "called"
    /\ \E t \in ConcurrentSheetReplies :
          /\ locals' = [locals EXCEPT ![c] = t]
          /\ calls' = calls \o LoggedBy(c, FetchInternal("ENTRIES", req[c].hasSql, NoReply, t).log)
    /\ pc' = [pc EXCEPT ![c] = "resolved"]
    /\ UNCHANGED <<req, ret>>

\* the continuation of caller c: lookup, guards, and the writer call
ResumeFor(c) ==
    /\ ContinuationReady(c)
    /\ LET run == CallerRun(c, locals[c], Pending)
           read == FetchInternal("ENTRIES", req[c].hasSql, NoReply, locals[c]).log
       IN  IF run.result.kind = "throw"
           THEN /\ pc' = [pc EXCEPT ![c] = "done"]
                /\ ret' = [ret EXCEPT ![c] = run.result]
                /\ UNCHANGED calls
           ELSE /\ pc' = [pc EXCEPT ![c] = "writing"]
                /\ calls' = calls \o LoggedBy(c, SubSeq(run.log, Len(read) + 1, Len(run.log)))
                /\ UNCHANGED ret
    /\ UNCHANGED <<req, locals>>

\* the writer call of caller c settles
WriteSettlesFor(c) ==
    /\ pc[c] = "writing"
    /\ \E w \in WriterReplies :
          ret' = [ret EXCEPT ![c] = CallerRun(c, locals[c], w).result]
    /\ pc' = [pc EXCEPT ![c] = "done"]
    /\ UNCHANGED <<req, calls, locals>>

ReadSettles == \E c \in Callers : ReadSettlesFor(c)

Resume == \E c \in Callers : ResumeFor(c)

WriteSettles == \E c \in Callers : WriteSettlesFor(c)

NextConcurrentWrites ==
    \/ ReadSettles
    \/ Resume
    \/ WriteSettles

SpecConcurrentWrites == InitConcurrentWrites /\ [][NextConcurrentWrites]_vars

(***************************************************************************)
(* Properties                                                              *)
(***************************************************************************)
Done(op) == pc = "done" /\ req.op = op
DoneWrite == pc = "done" /\ req.op \in {"update", "delete"}
DoneWeekly == pc = "done" /\ req.op \in {"fetch", "update", "delete"}

ModeOf(r) == IF r.op = "fetch" THEN r.mode ELSE "ENTRIES"
LegacyReaderOf(mode) == IF mode = "SUMMARY" THEN SheetGetWeeklySummary ELSE SheetGetAllEntries

WriterCalls == {i \in 1..Len(calls) : calls[i].fn \in {UpdateEntryRow, DeleteEntryRow}}

\* the reader call whose rows the converged read of update/delete was served from
ServingCalls ==
    {i \in 1..Len(calls) :
        calls[i].fn \in {SqlGetEntries, SheetGetAllEntries} /\ calls[i].reply.kind = "rows"}
ServedBySql == Len(calls) >= 1 /\ calls[1].fn = SqlGetEntries /\ calls[1].reply.kind = "rows"

\* every key of every row of `rows` is in the same place of `out`, with its value
SameRows(rows, out) ==
    /\ Len(out) = Len(rows)
    /\ \A i \in 1..Len(rows) : \A k \in DOMAIN rows[i] : Get(out[i], k) = rows[i][k]

CallsTo(fn) == {i \in 1..Len(calls) : calls[i].fn = fn}

\* the SQL contacts of `rows`, position-mapped and company-joined, are `out`
C1_MappedAndJoined(rows, allCompanies, out) ==
    /\ Len(out) = Len(rows)
    /\ \A i \in 1..Len(rows) :
          /\ \A k \in DOMAIN rows[i] \ {"position"} : Get(out[i], k) = rows[i][k]
          /\ DOMAIN out[i] = DOMAIN rows[i] \cup {"position", "companyName"}
          /\ out[i]["position"] =
                IF Truthy(Get(rows[i], "jobTitle")) THEN rows[i]["jobTitle"]
                ELSE Get(rows[i], "position")
          /\ out[i]["companyName"] \in
                {Get(allCompanies[j], "companyName") :
                    j \in {n \in 1..Len(allCompanies) :
                              Get(allCompanies[n], "companyId") = Get(rows[i], "companyId")}}
                    \cup {Get(rows[i], "companyId")}
          /\ out[i]["companyName"] # ""

(* C1: in _fetchOfficialContactsWithCompanies (forceSheet = false, SQL      *)
(* reader configured), contactReader.getContactList is called iff           *)
(* contactSqlReader.getContacts throws or returns null or an empty list;    *)
(* a non-empty list is returned as it is (position-mapped, company-joined,  *)
(* same order and count) and the legacy reader is not called.               *)
C1_ContactFallbackIff ==
    (Done("fetchContacts") /\ ~req.forceSheet /\ req.hasSqlReader) =>
        /\ Len(calls) >= 1
        /\ calls[1].fn = SqlGetContacts
        /\ CallsTo(ContactGetList) # {} <=>
              \/ calls[1].reply.kind \in {"throw", "null"}
              \/ calls[1].reply.kind = "rows" /\ calls[1].reply.rows = <<>>
        /\ (calls[1].reply.kind = "rows" /\ calls[1].reply.rows # <<>> /\ ret.kind = "rows") =>
              /\ Len(calls) = 2
              /\ calls[2].fn = CompanyGetList
              /\ C1_MappedAndJoined(calls[1].reply.rows, calls[2].reply.rows, ret.rows)

C1_Witness ==
    /\ Done("fetchContacts")
    /\ ~req.forceSheet
    /\ req.hasSqlReader
    /\ calls[1].reply.kind = "rows"
    /\ Len(calls[1].reply.rows) = 2
    /\ CallsTo(ContactGetList) = {}
    /\ ret.kind = "rows"
    /\ Len(ret.rows) = 2
    /\ ret.rows[1]["position"] = "j"
    /\ ret.rows[1]["companyName"] = "n"

(* C2: in _fetchInternal (modes ENTRIES and SUMMARY, SQL reader configured), *)
(* an empty result set of the SQL reader triggers the fallback: the legacy   *)
(* reader is called next and its rows are what the fetch returns.            *)
C2_EmptySqlFallsBack ==
    (/\ Done("fetch")
     /\ req.mode \in {"ENTRIES", "SUMMARY"}
     /\ req.hasSql
     /\ calls[1].reply = Reply("rows", <<>>))
    => /\ Len(calls) = 2
       /\ calls[2].fn = LegacyReaderOf(req.mode)
       /\ calls[2].reply.kind = "rows" => SameRows(calls[2].reply.rows, ret.rows)

(* C3 (weekly part): when the SQL reader throws, the error is not propagated, *)
(* the legacy reader is called next, the fetch returns the legacy data, and   *)
(* it fails only if the legacy reader fails.                                  *)
C3_WeeklySqlFailureDegrades ==
    (/\ DoneWeekly
     /\ Len(calls) >= 1
     /\ calls[1].fn = SqlGetEntries
     /\ calls[1].reply.kind = "throw")
    => /\ Len(calls) >= 2
       /\ calls[2].fn = LegacyReaderOf(ModeOf(req))
       /\ ret.err # "SqlError"
       /\ req.op = "fetch" =>
            /\ Len(calls) = 2
            /\ ret.kind = "throw" <=> calls[2].reply.kind = "throw"
            /\ calls[2].reply.kind = "rows" =>
                  ret.kind = "rows" /\ SameRows(calls[2].reply.rows, ret.rows)

(* C3 (contact part): when contactSqlReader.getContacts throws, the error   *)
(* is not propagated, contactReader.getContactList is called next, the      *)
(* fetch returns the legacy contacts (company-joined), and it fails only if *)
(* the legacy contact reader or the company reader fails.                   *)
C3_ContactSqlFailureDegrades ==
    (/\ Done("fetchContacts")
     /\ Len(calls) >= 1
     /\ calls[1].fn = SqlGetContacts
     /\ calls[1].reply.kind = "throw")
    => /\ Len(calls) >= 2
       /\ calls[2].fn = ContactGetList
       /\ ret.err # "SqlError"
       /\ ret.kind = "throw" <=>
             \/ calls[2].reply.kind = "throw"
             \/ Len(calls) = 3 /\ calls[3].fn = CompanyGetList /\ calls[3].reply.kind = "throw"
       /\ ret.kind # "throw" =>
             /\ ret.kind = "rows"
             /\ SameRows(calls[2].reply.rows, ret.rows)

(* C3: a failure of the primary (SQL) reader never fails a converged read:  *)
(* the weekly part and the contact part together.                           *)
C3_PrimaryFailureDegrades ==
    C3_WeeklySqlFailureDegrades /\ C3_ContactSqlFailureDegrades

C3_Witness ==
    /\ Done("fetchContacts")
    /\ calls[1].fn = SqlGetContacts
    /\ calls[1].reply.kind = "throw"
    /\ Len(calls) = 3
    /\ Len(calls[2].reply.rows) = 2
    /\ ret.kind = "rows"
    /\ Len(ret.rows) = 2

(* C4: once update/delete has located the target by recordId, the call is   *)
(* rejected with the write-protection error iff the target's rowIndex is    *)
(* falsy; with a truthy rowIndex the legacy writer is called exactly once,  *)
(* with that rowIndex; the legacy writer is never called with a falsy one.  *)
C4_GuardIffRowIndexFalsy ==
    /\ (DoneWrite /\ locals.found) =>
         LET rowIndex == Get(locals.target, "rowIndex")
         IN  /\ ret.err = "Forbidden" <=> Falsy(rowIndex)
             /\ Truthy(rowIndex) =>
                  /\ Cardinality(WriterCalls) = 1
                  /\ \A i \in WriterCalls :
                        /\ calls[i].fn = IF req.op = "update" THEN UpdateEntryRow
                                         ELSE DeleteEntryRow
                        /\ calls[i].arg.rowIndex = rowIndex
    /\ pc = "done" => \A i \in WriterCalls : Truthy(calls[i].arg.rowIndex)
    /\ (DoneWrite /\ ret.err = "Forbidden") => locals.found

C4_Witness ==
    /\ Done("update")
    /\ locals.found
    /\ IsSheet(locals.target)
    /\ Get(locals.target, "rowIndex") = "#2"
    /\ Cardinality(WriterCalls) = 1
    /\ ret.kind = "written"

(* C5: when the converged read of update/delete was served by the SQL       *)
(* reader, the legacy writer is never invoked, even when the DTO carries a  *)
(* rowIndex field.                                                          *)
C5_SqlRecordNeverWritten ==
    (DoneWrite /\ ServedBySql) => WriterCalls = {}

C5_Witness ==
    /\ Done("delete")
    /\ ServedBySql
    /\ Len(calls[1].reply.rows) >= 1
    /\ Get(calls[1].reply.rows[1], "rowIndex") = "#2"
    /\ Get(calls[1].reply.rows[1], "recordId") = req.recordId
    /\ ret.err = "Forbidden"

\* the converged read succeeded and no record of it has the requested recordId
C6_NoMatch ==
    /\ ServingCalls # {}
    /\ \A i \in ServingCalls : \A j \in 1..Len(calls[i].reply.rows) :
          Get(calls[i].reply.rows[j], "recordId") # req.recordId

(* C6: update/delete with a recordId that matches no record of the          *)
(* converged read set throws the not-found error, which is raised for no    *)
(* other reason (it is distinct from the write-protection error and from    *)
(* collaborator errors), and issues no writer call.                         *)
C6_NotFoundPropagates ==
    DoneWrite =>
        /\ C6_NoMatch => (ret.kind = "throw" /\ ret.err = "NotFound" /\ WriterCalls = {})
        /\ ret.err = "NotFound" => C6_NoMatch
        /\ ret.err \in {"SheetError", "WriterError", "Forbidden"} => ~C6_NoMatch

C6_Witness ==
    /\ Done("update")
    /\ C6_NoMatch
    /\ \E i \in ServingCalls : Len(calls[i].reply.rows) >= 1
    /\ ret.err = "NotFound"

DoneContactMutation == pc = "done" /\ req.op \in ContactMutations

(* C7: createContact, updateContact and deleteContact go to the new-store   *)
(* writer only, addressed by contactId: no legacy contactWriter call, no    *)
(* reader read, no rowIndex guard; without a contactSqlWriter each fails    *)
(* with an error and performs no write and no cache invalidation.           *)
C7_ContactWritesSqlOnly ==
    DoneContactMutation =>
        /\ \A i \in 1..Len(calls) :
              /\ calls[i].fn \in {SqlWriterFn(req.op), InvalidateCache}
              /\ "rowIndex" \notin DOMAIN calls[i].arg
        /\ ret.err # "Forbidden"
        /\ req.hasSqlWriter =>
              /\ Len(calls) >= 1
              /\ calls[1].fn = SqlWriterFn(req.op)
              /\ CallsTo(SqlWriterFn(req.op)) = {1}
              /\ req.op # "createContact" => calls[1].arg = [contactId |-> req.contactId]
        /\ ~req.hasSqlWriter => (ret.kind = "throw" /\ calls = <<>>)

C7_Witness ==
    /\ Done("updateContact")
    /\ req.hasSqlWriter
    /\ req.hasContactReader
    /\ Len(calls) = 2
    /\ calls[1].arg = [contactId |-> req.contactId]
    /\ ret.kind = "written"

(* C8 as claimed: for a legacy-shaped raw record (one with the localized    *)
(* date key), _normalizeEntry preserves every original key with its         *)
(* original value, a native key named date included.                        *)
C8_EveryLegacyKeyPreserved ==
    (Done("normalize") /\ IsSheet(req.raw)) =>
        \A k \in DOMAIN req.raw : k \in DOMAIN ret.obj /\ ret.obj[k] = req.raw[k]

(* C8 as amended: every original key other than date is preserved with its  *)
(* original value (weekId, recordId and rowIndex included), no key is       *)
(* removed, and date carries the value of the localized date key.           *)
C8_LegacyKeysPreservedExceptDate ==
    (Done("normalize") /\ IsSheet(req.raw)) =>
        /\ DOMAIN req.raw \subseteq DOMAIN ret.obj
        /\ \A k \in DOMAIN req.raw \ {"date"} : ret.obj[k] = req.raw[k]
        /\ ret.obj["date"] = req.raw["riqi"]

C8_Witness ==
    /\ Done("normalize")
    /\ IsSheet(req.raw)
    /\ "date" \in DOMAIN req.raw
    /\ req.raw["date"] # req.raw["riqi"]

\* the aliases named by C9: synthesized key, DTO key
C9_AliasPairs ==
    {<<"riqi", "entryDate">>, <<"zhuti", "topic">>, <<"canyu", "participants">>,
     <<"zhaiyao", "summaryContent">>, <<"daiban", "todoItems">>,
     <<"lastUpdateTime", "updatedTime">>, <<"jianlizhe", "createdBy">>}

C9_AliasesSynthesized ==
    \A p \in C9_AliasPairs :
        /\ p[1] \in DOMAIN ret.obj
        /\ ret.obj[p[1]] = IF Truthy(Get(req.raw, p[2])) THEN req.raw[p[2]] ELSE ""

(* C9 as claimed: for a new-store-shaped raw record every legacy alias key  *)
(* is synthesized and the key rowIndex is absent from the result.           *)
C9_RowIndexKeyOmitted ==
    (Done("normalize") /\ ~IsSheet(req.raw)) =>
        C9_AliasesSynthesized /\ "rowIndex" \notin DOMAIN ret.obj

(* C9 as amended: every legacy alias key is synthesized and rowIndex is     *)
(* present in the result with the value undefined, whatever the DTO carried. *)
C9_RowIndexUndefined ==
    (Done("normalize") /\ ~IsSheet(req.raw)) =>
        /\ C9_AliasesSynthesized
        /\ "rowIndex" \in DOMAIN ret.obj
        /\ ret.obj["rowIndex"] = UNDEF

C9_Witness ==
    /\ Done("normalize")
    /\ ~IsSheet(req.raw)
    /\ Truthy(Get(req.raw, "rowIndex"))
    /\ Truthy(Get(req.raw, "updatedTime"))

\* the canonical fields of an entry, as the result names them
C10_CanonicalFields ==
    {"date", "weekId", "recordId", "category", "summaryContent", "topic",
     "participants", "todoItems", "createdTime", "updatedTime"}

(* C10: in every record returned by _normalizeEntry, a canonical field that *)
(* the raw record lacks is the empty string, and no canonical field is      *)
(* undefined or null.                                                       *)
C10_CanonicalFieldsDefaulted ==
    Done("normalize") =>
        \A f \in C10_CanonicalFields :
            /\ Get(ret.obj, f) \notin {UNDEF, NULL}
            /\ (f # "date" /\ f \notin DOMAIN req.raw) => Get(ret.obj, f) = ""

\* C11: _normalizeEntry is idempotent: normalizing an already normalized
\* entry of either shape (new-store records with missing entryDate, weekId
\* or recordId included) yields exactly the same keys and values.
C11_NormalizeIdempotent ==
    Done("renormalize") => ret.obj = req.raw

\* the fallback read of getContactById as seen in the call log: the legacy
\* contact list and, when that succeeded, the company list read after it
C12_SqlHit == req.hasSqlReader /\ calls[1].reply.kind = "rows"
C12_JoinFailed == C12_SqlHit /\ calls[2].reply.kind = "throw"
C12_LegacyCalled == CallsTo(ContactGetList) # {}
C12_FallbackFailed ==
    /\ C12_LegacyCalled
    /\ calls[Len(calls)].reply.kind = "throw"
C12_FallbackHas(contactId) ==
    \E i \in CallsTo(ContactGetList) :
        /\ calls[i].reply.kind = "rows"
        /\ \E j \in 1..Len(calls[i].reply.rows) :
              Get(calls[i].reply.rows[j], "contactId") = contactId
C12_Joined ==
    /\ ret.kind = "obj"
    /\ ret.obj = MapOfficialContact(MapSqlContact(calls[1].reply.rows[1]),
                                    calls[2].reply.rows)
C12_NullAndThrow ==
    /\ (ret.kind = "null") <=>
          (C12_LegacyCalled /\ ~C12_FallbackFailed /\ ~C12_FallbackHas(req.contactId))
    /\ (ret.kind = "throw") => C12_FallbackFailed

\* C12: getContactById: a hit in the SQL reader returns the joined contact
\* at once without calling the legacy contact reader; a SQL miss and a SQL
\* error both continue to the legacy fallback; null is returned exactly when
\* the fallback read succeeds and holds no contact of that id; the call
\* throws only when the fallback read itself fails.
C12_HitReturnsWithoutLegacy ==
    Done("getContactById") =>
        /\ C12_SqlHit => (C12_Joined /\ ~C12_LegacyCalled)
        /\ ~C12_SqlHit => C12_LegacyCalled
        /\ C12_NullAndThrow

\* C12 as the code has it: a SQL hit whose company join succeeds returns the
\* joined contact without calling the legacy contact reader; a SQL miss, a
\* SQL error and a SQL hit whose company join fails all continue to the
\* legacy fallback; null and throw as claimed.
C12_JoinedHitReturnsWithoutLegacy ==
    Done("getContactById") =>
        /\ (C12_SqlHit /\ ~C12_JoinFailed) => (C12_Joined /\ ~C12_LegacyCalled)
        /\ (~C12_SqlHit \/ C12_JoinFailed) => C12_LegacyCalled
        /\ C12_NullAndThrow

\* a SQL hit whose join failed, answered by the fallback with null
C12_Witness ==
    /\ Done("getContactById")
    /\ C12_JoinFailed
    /\ ret.kind = "null"

(***************************************************************************)
(* getWeeklyDetails                                                        *)
(***************************************************************************)
DoneDetails == pc = "done" /\ req.op = "getWeeklyDetails"
Classified == DoneDetails /\ locals.classified

\* what the two streams and the configuration delivered, from the call log
RawDx == EventsOf(ResultOf(GetEvents, <<StreamA>>))
RawAt == EventsOf(ResultOf(GetEvents, <<StreamB>>))
ConfiguredRules ==
    IF ResultOf(GetSystemConfig, <<>>).kind = "rules"
    THEN ResultOf(GetSystemConfig, <<>>).rows ELSE <<>>
KeywordsOfRule(value) ==
    LET hits == {i \in 1..Len(ConfiguredRules) : ConfiguredRules[i].value = value}
    IN  IF hits = {} THEN <<>>
        ELSE KeywordsOf(ConfiguredRules[CHOOSE i \in hits : \A j \in hits : i <= j].note)

\* the summary of the event contains one of the keywords, case-sensitively
SummaryContains(evt, keywords) ==
    LET summary == IF "summary" \in DOMAIN evt THEN Chars(evt.summary) ELSE <<>>
    IN  \E k \in 1..Len(keywords) :
        \E i \in 0..(Len(summary) - Len(keywords[k])) :
            \A j \in 1..Len(keywords[k]) : summary[i + j] = keywords[k][j]

\* how many times the list holds the event
Count(list, evt) == Cardinality({i \in 1..Len(list) : list[i] = evt})
Blocked(evt) == SummaryContains(evt, KeywordsOfRule(BlockRule))
Transferred(evt) == SummaryContains(evt, KeywordsOfRule(TransferRule))

\* C13: every stream-A event whose summary contains a block keyword is in
\* neither bucket and every other stream-A event is in bucket A only; every
\* stream-B event is in exactly one bucket, A if its summary contains a
\* transfer keyword and B otherwise; the match is a case-sensitive substring
\* match.  Buckets are counted per event so that equal events of the two
\* streams are told apart.
C13_ClassifiedByStreamAndKeyword ==
    Classified =>
        \A evt \in CalendarEvents :
            /\ Count(locals.finalDxList, evt) =
                  (IF Blocked(evt) THEN 0 ELSE Count(RawDx, evt))
                  + (IF Transferred(evt) THEN Count(RawAt, evt) ELSE 0)
            /\ Count(locals.finalAtList, evt) =
                  (IF Transferred(evt) THEN 0 ELSE Count(RawAt, evt))

\* a stream-A event in lower case passes a block keyword in upper case while
\* stream B transfers
C13_Witness ==
    /\ Classified
    /\ ret.kind = "obj"
    /\ \E i \in 1..Len(RawDx) : Get(RawDx[i], "summary") = "b"
    /\ KeywordsOfRule(BlockRule) = <<Chars("B")>>
    /\ \E i \in 1..Len(RawAt) : Transferred(RawAt[i])

\* C14: the rules are not applied across streams: a stream-B event that
\* carries both a transfer and a block keyword ends in bucket A, and a
\* stream-A event with a transfer keyword and no block keyword stays in
\* bucket A and is never in bucket B.
C14_NoCrossApplication ==
    Classified =>
        /\ \A i \in 1..Len(RawAt) :
              (Transferred(RawAt[i]) /\ Blocked(RawAt[i])) =>
                  /\ Count(locals.finalDxList, RawAt[i]) > 0
                  /\ Count(locals.finalAtList, RawAt[i]) = 0
        /\ \A i \in 1..Len(RawDx) :
              (Transferred(RawDx[i]) /\ ~Blocked(RawDx[i])) =>
                  /\ Count(locals.finalDxList, RawDx[i]) > 0
                  /\ Count(locals.finalAtList, RawDx[i]) = 0

\* stream B delivers an event with both keywords, stream A one with the
\* transfer keyword only
C14_Witness ==
    /\ Classified
    /\ ret.kind = "obj"
    /\ \E i \in 1..Len(RawAt) : Transferred(RawAt[i]) /\ Blocked(RawAt[i])
    /\ \E i \in 1..Len(RawDx) : Transferred(RawDx[i]) /\ ~Blocked(RawDx[i])

\* the fan-out succeeded and the rule list is well formed
C15_ReadyToBucket ==
    /\ DoneDetails
    /\ \A i \in FanOut : calls[i].reply.kind \notin {"pending", "throw"}
    /\ ResultOf(GetSystemConfig, <<>>).kind # "badRules"
    /\ \A i \in 1..Len(ConfiguredRules) : "note" \in DOMAIN ConfiguredRules[i]
UsableStart(evt) ==
    /\ "start" \in DOMAIN evt
    /\ \E k \in DOMAIN evt.start : Truthy(evt.start[k])
BucketedItems(byDay) ==
    LET RECURSIVE Sum(_)
        Sum(keys) == IF keys = {} THEN 0
                     ELSE LET k == CHOOSE x \in keys : TRUE
                          IN  Len(byDay[k]) + Sum(keys \ {k})
    IN  Sum(DOMAIN byDay)
UsableEvents(list) == Cardinality({i \in 1..Len(list) : UsableStart(list[i])})

\* C15: an event without a usable start (no start object, or a start with
\* neither date nor dateTime) is dropped silently during day-bucketing: it
\* is in no day bucket, every other event is still bucketed and
\* getWeeklyDetails does not fail.
C15_NoUsableStartDropped ==
    C15_ReadyToBucket =>
        /\ ret.kind = "obj"
        /\ BucketedItems(locals.dxEventsByDay) = UsableEvents(locals.finalDxList)
        /\ BucketedItems(locals.atEventsByDay) = UsableEvents(locals.finalAtList)

\* the day bucket that holds the event's item as claimed: under the day of
\* the date-only start when there is one, marked all-day; otherwise under
\* the day of the date-time start with its HH:MM
C16_BucketedAsClaimed(evt, byDay) ==
    LET dateOnly == Truthy(Get(evt.start, "date"))
        from == IF dateOnly THEN evt.start.date ELSE evt.start.dateTime
        dateKey == LocaleDateString(ParseStart(from), req.zone)
    IN  /\ dateKey \in DOMAIN byDay
        /\ \E i \in 1..Len(byDay[dateKey]) :
              /\ byDay[dateKey][i].summary = Get(evt, "summary")
              /\ byDay[dateKey][i].isAllDay = dateOnly
              /\ byDay[dateKey][i].time =
                    IF dateOnly THEN AllDay
                    ELSE LocaleTimeString(ParseStart(from), req.zone)

\* C16: the day key of an event is computed from the date-only start when
\* the event carries both a date-only and a date-time start; the time is the
\* all-day marker with isAllDay true exactly when the day key was computed
\* from the date-only start, otherwise HH:MM of the date-time start with
\* isAllDay false.
C16_DateOnlyStartWins ==
    (DoneDetails /\ ret.kind = "obj") =>
        /\ \A i \in 1..Len(locals.finalDxList) :
              UsableStart(locals.finalDxList[i]) =>
                  C16_BucketedAsClaimed(locals.finalDxList[i], locals.dxEventsByDay)
        /\ \A i \in 1..Len(locals.finalAtList) :
              UsableStart(locals.finalAtList[i]) =>
                  C16_BucketedAsClaimed(locals.finalAtList[i], locals.atEventsByDay)

C17_Completed(i) == calls[i].reply.kind \notin {"pending", "throw"}
C17_Asked(stream) == \E i \in FanOut : calls[i].fn = GetEvents /\ calls[i].arg = <<stream>>

\* C17: the fan-out of getWeeklyDetails (holidays, system configuration and
\* the events of each configured calendar) is all-or-nothing: the events are
\* classified only after every request that was issued has completed, and
\* when one of them fails the whole call fails and returns no partial result.
C17_FanOutAllOrNothing ==
    (req.op = "getWeeklyDetails" /\ pc # "called") =>
        /\ C17_Asked(StreamA) <=> req.hasPersonal
        /\ C17_Asked(StreamB) <=> req.hasCalendar
        /\ \E i \in FanOut : calls[i].fn = GetHolidays
        /\ \E i \in FanOut : calls[i].fn = GetSystemConfig
        /\ locals.classified => \A i \in FanOut : C17_Completed(i)
        /\ (pc = "done" /\ ret.kind = "obj") => \A i \in FanOut : C17_Completed(i)
        /\ (pc = "done" /\ \E i \in FanOut : calls[i].reply.kind = "throw") =>
              /\ ret.kind = "throw"
              /\ ret.obj = EmptyObj
              /\ ~locals.classified

\* a calendar failed after the configuration and the other calendar had
\* completed, and the call failed
C17_Witness ==
    /\ DoneDetails
    /\ ret.kind = "throw"
    /\ \E i \in FanOut : calls[i].fn = GetEvents /\ calls[i].reply.kind = "throw"
    /\ \E i \in FanOut : calls[i].fn = GetEvents /\ calls[i].reply.kind = "rows"
    /\ \E i \in FanOut : calls[i].fn = GetSystemConfig /\ calls[i].reply.kind = "rules"

C18_ConfigKind == ResultOf(GetSystemConfig, <<>>).kind
C18_FanOutDone == DoneDetails /\ \A i \in FanOut : C17_Completed(i)
C18_RuleWithoutNote ==
    \E i \in 1..Len(ConfiguredRules) :
        /\ ConfiguredRules[i].value \in {BlockRule, TransferRule}
        /\ "note" \notin DOMAIN ConfiguredRules[i]

\* C18: when the system configuration is missing, or its filter rule list
\* is missing or malformed, getWeeklyDetails fails with a configuration
\* error that reaches the caller; it does not recover with empty keyword
\* lists.
C18_MissingConfigFails ==
    (C18_FanOutDone /\ (C18_ConfigKind \in {"null", "noRules", "badRules"}
                        \/ C18_RuleWithoutNote)) =>
        /\ ret.kind = "throw"
        /\ ~locals.classified

\* C18 as the code has it: a missing configuration and a missing rule list
\* are recovered with empty keyword lists: nothing is blocked and nothing is
\* transferred, and the call fails only for an event without start object;
\* a rule list that is not an array and a block or transfer rule without
\* note fail the call with a TypeError.
C18_MissingConfigRecovered ==
    /\ (C18_FanOutDone /\ C18_ConfigKind \in {"null", "noRules"}) =>
          /\ locals.classified
          /\ locals.finalDxList = RawDx
          /\ locals.finalAtList = RawAt
          /\ (ret.kind = "throw") =>
                \E i \in 1..Len(RawDx \o RawAt) : "start" \notin DOMAIN (RawDx \o RawAt)[i]
    /\ (C18_FanOutDone /\ (C18_ConfigKind = "badRules" \/ C18_RuleWithoutNote)) =>
          /\ ret.kind = "throw"
          /\ ret.err = "TypeError"
          /\ ~locals.classified

\* no configuration at all, both streams deliver an event, the call returns
C18_Witness ==
    /\ C18_FanOutDone
    /\ C18_ConfigKind = "null"
    /\ Len(RawDx) > 0
    /\ Len(RawAt) > 0
    /\ ret.kind = "obj"

(***************************************************************************)
(* getWeeklyBusinessSummaryList                                            *)
(***************************************************************************)
DoneSummaryList == pc = "done" /\ req.op = "getWeeklyBusinessSummaryList"
ListReturned == DoneSummaryList /\ ret.kind = "rows"

\* the records that were fetched: the rows of the last reader that replied
Fetched == calls[Len(calls)].reply.rows
WeekPattern == {"2026-W03", "2026-W04", "2026-W05", "2026-W07"}
FetchedOf(weekId) == {i \in 1..Len(Fetched) : Get(Fetched[i], "weekId") = weekId}

\* the summary of the record has a character that is not a blank
NonBlankSummary(row) ==
    LET content == IF Get(row, "summaryContent") \notin {UNDEF, NULL, ""}
                   THEN row.summaryContent ELSE Get(row, "zhaiyao")
    IN  content \notin {UNDEF, NULL, ""} /\ \E i \in 1..Len(Chars(content)) : Chars(content)[i] # " "
EntriesOf(weekId) == {i \in 1..Len(ret.rows) : ret.rows[i].id = weekId}

\* C19: for every weekId of the week pattern that occurs in the fetched
\* records the list has one entry, whose summaryCount is the number of
\* fetched records of that weekId with a summary that is non-empty once
\* trimmed, whichever reader served them; records with a missing or
\* non-matching weekId contribute to no entry and cause no error.
C19_CountsPerMatchingWeek ==
    /\ (DoneSummaryList /\ calls[Len(calls)].reply.kind = "rows") => ret.kind = "rows"
    /\ ListReturned =>
          /\ \A w \in WeekPattern :
                FetchedOf(w) # {} =>
                    /\ Cardinality(EntriesOf(w)) = 1
                    /\ \A i \in EntriesOf(w) :
                          ret.rows[i].summaryCount =
                              Cardinality({j \in FetchedOf(w) : NonBlankSummary(Fetched[j])})
          /\ \A i \in 1..Len(ret.rows) :
                \/ ret.rows[i].id \in WeekPattern /\ FetchedOf(ret.rows[i].id) # {}
                \/ ret.rows[i].id = WeekIdOf(req.today) /\ ret.rows[i].summaryCount = 0

\* the SQL reader serves two records of one week, one with a blank summary,
\* or the sheet reader serves one without weekId beside a counted one
C19_Witness ==
    /\ ListReturned
    /\ Len(Fetched) = 2
    /\ \/ /\ calls[Len(calls)].fn = SqlGetEntries
          /\ FetchedOf("2026-W03") = {1, 2}
          /\ NonBlankSummary(Fetched[1])
          /\ ~NonBlankSummary(Fetched[2])
       \/ /\ calls[Len(calls)].fn = SheetGetWeeklySummary
          /\ "weekId" \notin DOMAIN Fetched[1]
          /\ NonBlankSummary(Fetched[2])
          /\ FetchedOf("2026-W05") = {2}

DoneEntries == pc = "done" /\ req.op = "getEntriesForWeek"

\* the converged read failed: the last reader asked threw
ReadFailed == calls[Len(calls)].reply.kind = "throw"

\* the normalized entries of the records that were read
ReadEntries == NormalizeAll(calls[Len(calls)].reply.rows)
OfWeek(entries) == {i \in 1..Len(entries) : Get(entries[i], "weekId") = req.weekId}

\* the returned entry without the two keys getEntriesForWeek adds
WithoutDay(entry) == [k \in (DOMAIN entry) \ {"day", "_view"} |-> entry[k]]
ValidDate(entry) == Get(entry, "date") \in {"2026-01-19", "2026-01-21"}
Instant(entry) == IF entry.date = "2026-01-19" THEN 19 ELSE 21

\* C21: getEntriesForWeek never throws: when the converged read fails it
\* returns an empty list; otherwise it returns exactly the normalized
\* entries whose weekId is the argument, each with a day field, ordered by
\* date descending (read for the entries whose date is a date).
C21_MatchingEntriesByDateDesc ==
    DoneEntries =>
        /\ ret.kind = "rows"
        /\ ReadFailed => ret.rows = <<>>
        /\ ~ReadFailed =>
              /\ Len(ret.rows) = Cardinality(OfWeek(ReadEntries))
              /\ \A e \in {ReadEntries[i] : i \in OfWeek(ReadEntries)} :
                    Cardinality({i \in 1..Len(ret.rows) : WithoutDay(ret.rows[i]) = e})
                        = Cardinality({i \in OfWeek(ReadEntries) : ReadEntries[i] = e})
              /\ \A i \in 1..Len(ret.rows) : "day" \in DOMAIN ret.rows[i]
              /\ \A i, j \in 1..Len(ret.rows) :
                    (i < j /\ ValidDate(ret.rows[i]) /\ ValidDate(ret.rows[j]))
                        => Instant(ret.rows[i]) >= Instant(ret.rows[j])

\* the weekday the calendar gives the date of the entry, 7 when the date
\* is not a calendar date in the form YYYY-MM-DD
CalendarWeekday(entry) ==
    CASE Get(entry, "date") = "2026-01-19" -> 1
      [] Get(entry, "date") = "2026-01-21" -> 3
      [] OTHER -> 7

\* C22: the day field is the UTC weekday number (0 to 6, 1 for 2026-01-19)
\* when the date of the entry is a valid calendar date in the form
\* YYYY-MM-DD and the sentinel -1 for every malformed date: missing, of a
\* wrong format, or not a calendar date, such as one of a month 13;
\* computing it never throws.
C22_DayIsWeekdayOrSentinel ==
    DoneEntries =>
        /\ ret.kind = "rows"
        /\ \A i \in 1..Len(ret.rows) :
              /\ ret.rows[i].day =
                    (IF CalendarWeekday(ret.rows[i]) = 7 THEN 0 - 1
                     ELSE CalendarWeekday(ret.rows[i]))
              /\ ret.rows[i]._view.day = ret.rows[i].day

(***************************************************************************)
(* searchOfficialContacts: pagination                                      *)
(***************************************************************************)
DoneSearch == pc = "done" /\ req.op = "searchOfficialContacts" /\ ret.kind = "page"

\* the page size the service was configured with
ConfiguredPageSize ==
    IF "PAGINATION" \in DOMAIN req.config
    THEN req.config.PAGINATION.CONTACTS_PER_PAGE
    ELSE DefaultPageSize

\* how many of n contacts are on the page: at most size, from (page - 1) * size on
OnPage(n, page, size) ==
    IF n <= (page - 1) * size THEN 0
    ELSE IF n - (page - 1) * size < size THEN n - (page - 1) * size
    ELSE size

\* C23: for N contacts remaining after filtering, page size P and page
\* number page >= 1, hasNext is true iff page * P < N, hasPrev is true iff
\* page > 1, totalItems = N, total = ceil(N / P), and data is the contiguous
\* slice of at most P contacts starting at index (page - 1) * P, so that the
\* pages 1..total partition the filtered list without overlap or loss.
C23_PagesPartitionFiltered ==
    DoneSearch =>
        LET filtered == locals.entries
            N == Len(filtered)
            P == ConfiguredPageSize
            page == req.page
            info == ret.obj
        IN  /\ info.hasNext <=> (page * P < N)
            /\ info.hasPrev <=> (page > 1)
            /\ info.totalItems = N
            /\ info.total * P >= N
            /\ (info.total - 1) * P < N \/ (N = 0 /\ info.total = 0)
            /\ Len(ret.rows) = OnPage(N, page, P)
            /\ \A i \in 1..Len(ret.rows) : ret.rows[i] = filtered[(page - 1) * P + i]
            /\ \A j \in 1..N :
                  /\ ((j - 1) \div P) + 1 \in 1..info.total
                  /\ page = ((j - 1) \div P) + 1 => ret.rows[((j - 1) % P) + 1] = filtered[j]

\* a middle page: more contacts matched the query than the page holds, and
\* there are pages before and after
C23_Witness ==
    /\ DoneSearch
    /\ Truthy(req.query)
    /\ req.page = 2
    /\ Len(locals.entries) = 3
    /\ Len(ret.rows) = 1
    /\ ret.obj.hasNext
    /\ ret.obj.hasPrev
    /\ ret.obj.total = 3

(***************************************************************************)
(* ContactService: the cache is dropped only after a write                 *)
(***************************************************************************)
DoneContactWrite ==
    pc = "done" /\ req.op \in ContactMutations \cup {"updatePotentialContact"}

\* the places in the log of the calls that write
ContactWriterCalls ==
    {i \in 1..Len(calls) :
        calls[i].fn \in {"contactSqlWriter.createContact", "contactSqlWriter.updateContact",
                         "contactSqlWriter.deleteContact",
                         "contactWriter.writePotentialContactRow"}}

\* the places in the log where the cache of the legacy reader is dropped
CacheDrops == {i \in 1..Len(calls) : calls[i].fn = "contactReader.invalidateCache"}

\* the service has a cache to drop: the potential-contact update reads
\* through the legacy reader, the other writes may be made without one
HasLegacyReader == req.op = "updatePotentialContact" \/ req.hasContactReader

\* C24: the legacy reader's cache is invalidated only after a successful
\* write: in createContact, updateContact, deleteContact and
\* updatePotentialContact, invalidateCache is called after the writer call
\* has completed successfully, and is never called when the writer call
\* fails or when the operation is rejected before writing (SQL writer not
\* configured, potential-contact row not found).
C24_CacheDroppedOnlyAfterWrite ==
    DoneContactWrite =>
        /\ \A i \in CacheDrops :
              /\ i - 1 \in ContactWriterCalls
              /\ calls[i - 1].reply.kind = "ok"
        /\ (\E i \in ContactWriterCalls : calls[i].reply.kind = "throw") => CacheDrops = {}
        /\ ContactWriterCalls = {} => CacheDrops = {}
        /\ ret.kind = "throw" => CacheDrops = {}
        /\ (ret.kind = "written" /\ HasLegacyReader) => CacheDrops # {}

\* a potential contact was found, merged and written, and the cache dropped
C24_Witness ==
    /\ DoneContactWrite
    /\ req.op = "updatePotentialContact"
    /\ ret.kind = "written"
    /\ Len(calls) = 3
    /\ calls[2].fn = "contactWriter.writePotentialContactRow"
    /\ calls[2].reply.kind = "ok"
    /\ calls[3].fn = "contactReader.invalidateCache"

(***************************************************************************)
(* Concurrent update and delete of one weekly entry                        *)
(***************************************************************************)
\* the places in the common log of the writer calls
DispatchedWrites ==
    {i \in 1..Len(calls) :
        calls[i].call.fn \in {"weeklyBusinessWriter.updateEntryRow",
                              "weeklyBusinessWriter.deleteEntryRow"}}

\* the row position the read of caller c gave for the record of its request
ResolvedRowIndex(c) ==
    LET rows == locals[c].rows
        hits == {i \in 1..Len(rows) : Get(rows[i], "recordId") = req[c].recordId}
    IN  IF locals[c].kind # "rows" \/ hits = {} THEN UNDEF
        ELSE Get(rows[CHOOSE i \in hits : \A j \in hits : i <= j], "rowIndex")

\* C25: update and delete of the same weekly entry are not serialized by
\* the service.  No call waits for another one: a call whose read has
\* settled goes on at once, whatever the other caller has in flight, and it
\* writes to the row position its own read gave, also when a writer call
\* for that position was issued in between.  (The interleaving the claim
\* describes is C25_Witness.)
C25_WritesNotSerialized ==
    /\ \A c \in Callers : pc[c] = "called" => ENABLED ReadSettlesFor(c)
    /\ \A c \in Callers : pc[c] = "resolved" => ENABLED ResumeFor(c)
    /\ \A c \in Callers : pc[c] = "writing" => ENABLED WriteSettlesFor(c)
    /\ \A i \in DispatchedWrites :
          /\ pc[calls[i].caller] \in {"writing", "done"}
          /\ calls[i].call.arg.rowIndex = ResolvedRowIndex(calls[i].caller)
    /\ \A c \in Callers :
          (pc[c] = "writing" \/ (pc[c] = "done" /\ ret[c].kind # "throw"))
              => \E i \in DispatchedWrites : calls[i].caller = c

\* both callers resolved the same row position before either wrote, then
\* the delete of one was issued and after it the update (or the delete) of
\* the other, for the same position
C25_Witness ==
    /\ Len(calls) = 4
    /\ DispatchedWrites = {3, 4}
    /\ calls[3].caller # calls[4].caller
    /\ calls[3].call.fn = "weeklyBusinessWriter.deleteEntryRow"
    /\ calls[3].call.arg.rowIndex = calls[4].call.arg.rowIndex
    /\ req["A"].recordId = req["B"].recordId
    /\ \A c \in Callers : pc[c] = "writing"

====
